---- MODULE Spec2Model ----
(***************************************************************************)
(* Model of the post office queue simulation engine                        *)
(* (src/src/queueSimulator.py): customers, servers, booths, the            *)
(* per-service queues, the tick driven clock, the four dispatch            *)
(* strategies, the completion, abandonment and assignment sweeps, the      *)
(* statistics and reset; and of the main window that drives it             *)
(* (src/src/mainGui.py: start, pause, the timer's tick, the hand-off of     *)
(* arrivals) with its Micro:bit listener (src/src/microbitComms.py).        *)
(*                                                                         *)
(* Time is kept in integers.  Simulated time is counted in units of        *)
(* 1/Minute of a simulated minute (Minute = 5, i.e. 0.2 min), the          *)
(* resolution at which the sampled service-time jitter 0.8 / 1.2 of the    *)
(* configured whole-minute service times is exact.  A wall-clock reading   *)
(* of time.time() is counted in units of WallUnit = 3 seconds, so that     *)
(* with timeAcceleration = 20 the conversion                               *)
(* realDeltaTime * timeAcceleration / 60.0 is exact (one wall unit is      *)
(* one simulated minute).                                                  *)
(*                                                                         *)
(* Python's None is the empty sequence and a set value v is <<v>>.         *)
(***************************************************************************)
EXTENDS Integers, Sequences, FiniteSets, TLC

\* ------------------------------------------------------------------ bounds
\* Customers created between two resets (Customer._nextId stays <= this + 1).
MaxCustomers == 2
\* The same where only arrivals and selections are run.
MaxQueued == 5
\* The same where one server and one booth leave customers to the abandonment
\* sweep.
MaxWaiting == 4
\* The wall clock of the main window, in wall units.
MaxWall == 2

\* --------------------------------------------------------------- constants
Minute == 5
WallUnit == 3
timeAcceleration == 20

None == <<>>
Some(v) == <<v>>

\* self.queues / self.serviceTypesList: dict insertion order
serviceTypesList == <<"standard_post", "passports", "parcels">>
Categories == {serviceTypesList[i] : i \in 1..Len(serviceTypesList)}

\* the service times __init__ falls back to (serviceTimes=None), in minutes
defaultServiceTimes == [standard_post |-> 2, passports |-> 5, parcels |-> 3]

\* the priority list in the order of the queues dict
priorityOrderAsQueued == <<"standard_post", "passports", "parcels">>

\* _selectPriorityOrder: priorityOrder
priorityOrder == <<"passports", "parcels", "standard_post">>

\* DispatchStrategy
LONGEST_WAIT_FIRST == "longest_wait_first"
SHORTEST_JOB_FIRST == "shortest_job_first"
ROUND_ROBIN == "round_robin"
PRIORITY_ORDER == "priority_order"
DispatchStrategy == {LONGEST_WAIT_FIRST, SHORTEST_JOB_FIRST, ROUND_ROBIN, PRIORITY_ORDER}

\* ServerState (IDLE is declared by the source and never assigned)
SPARE == "spare"
BUSY == "busy"

\* Inputs the environment can supply
\* constructor arguments <<numServers, numBooths, dispatchStrategy,
\* abandonmentEnabled>>: abandonment on and off, more servers than booths,
\* more booths than servers and as many of each, a strategy that reads the
\* clock and one that keeps a cursor.  SHORTEST_JOB_FIRST and PRIORITY_ORDER
\* instances are run by SpecShortestJob and SpecPriority, every combination
\* by SpecAll.
Configs ==
    {<<2, 1, LONGEST_WAIT_FIRST, TRUE>>,
     <<2, 2, LONGEST_WAIT_FIRST, FALSE>>,
     <<1, 2, ROUND_ROBIN, FALSE>>}
\* a serviceTimes argument in which two categories cost the same
tiedServiceTimes == [standard_post |-> 3, passports |-> 5, parcels |-> 3]
\* every combination of them
AllConfigs == {1, 2} \X {1, 2} \X DispatchStrategy \X BOOLEAN
\* addCustomer's argument: the configured categories and one that is not
ServiceTypeInputs == Categories \cup {"unknown"}
\* samples of random.uniform(0.8, 1.2), in fifths: 0.8 and 1.2
Jitter == {4, 6}
\* readings of time.time().  update uses only the difference of two readings,
\* so the reading of the first tick after construction or reset is taken as
\* the origin of the wall clock; later readings may lie before earlier ones.
WallReadings == {0, 3, 6}
FirstReadings == {0}

\* The fields of one QueueSimulator, the class attribute Customer._nextId
\* (nextId), the window's fields (described at windowVars) and lastOp, the
\* last call made on the instance or the window as its caller saw
\* it: the method, its argument (addCustomer's serviceType, update's reading
\* of time.time()) and what came back (addCustomer's result; for a state
\* advancing update the random samples it drew, None for the first update).
VARIABLES
    numServers, numBooths, dispatchStrategy, abandonmentEnabled, serviceTimes,
    servers, booths, queues,
    simulationTime, lastUpdateTime,
    totalCustomersServed, totalCustomersAbandoned,
    completedCustomers, abandonedCustomers,
    roundRobinIndex, running,
    nextId,
    lastOp,
    guiAt, events,
    connected, listening, listenerThread,
    now, pausedTime, received, applied

config == <<numServers, numBooths, dispatchStrategy, abandonmentEnabled,
            serviceTimes>>
simVars == <<servers, booths, queues, simulationTime, lastUpdateTime,
             totalCustomersServed, totalCustomersAbandoned,
             completedCustomers, abandonedCustomers, roundRobinIndex, running>>

\* The main window around the simulator (src/src/mainGui.py) and its
\* MicrobitCommunicator (src/src/microbitComms.py):
\*   guiAt           where the GUI thread is: in Qt's event loop ("eventLoop")
\*                   or inside the timer's slot updateSimulation
\*   events          the customerAdded signals posted to the GUI thread's
\*                   event loop and not yet delivered, oldest first
\*   connected, listening   the communicator's fields of these names
\*   listenerThread  the communicator's listener thread: None, "alive" or
\*                   "ended"
\*   now             the wall clock, in wall units
\* and, kept beside them to state properties of runs,
\*   pausedTime      the wall time gone by with simulator.running False since
\*                   the last call of simulator.update
\*   received        the service types of the SERVICE_REQUEST messages the
\*                   listener thread has processed, oldest first
\*   applied         the addCustomer calls made for such messages, oldest
\*                   first, each with the thread that made it
windowVars == <<guiAt, events, connected, listening, listenerThread,
                now, pausedTime, received, applied>>
vars == <<config, simVars, nextId, lastOp, windowVars>>

\* ---------------------------------------------------------------- entities
\* Customer.__init__
Customer(id, serviceType, arrivalTime) ==
    [customerId |-> id,
     serviceType |-> serviceType,
     arrivalTime |-> arrivalTime,
     queueJoinTime |-> arrivalTime,
     serviceStartTime |-> None,
     serviceEndTime |-> None,
     serverId |-> None,
     boothId |-> None,
     outcome |-> None]

\* Server.__init__
Server(serverId) ==
    [serverId |-> serverId,
     state |-> SPARE,
     currentCustomer |-> None,
     currentBoothId |-> None,
     serviceEndTime |-> None]

\* Server.startService
startService(server, customer, boothId, serviceEndTime) ==
    [server EXCEPT !.state = BUSY,
                   !.currentCustomer = Some(customer),
                   !.currentBoothId = Some(boothId),
                   !.serviceEndTime = Some(serviceEndTime)]

\* Server.finishService (the server afterwards; the customer is
\* server.currentCustomer before the call)
finishService(server) ==
    [server EXCEPT !.currentCustomer = None,
                   !.currentBoothId = None,
                   !.serviceEndTime = None,
                   !.state = SPARE]

\* Server.isAvailable
ServerIsAvailable(server) == server.state = SPARE

\* Booth.__init__
Booth(boothId) == [boothId |-> boothId, occupied |-> FALSE, serverId |-> None]

\* Booth.assignServer
assignServer(booth, serverId) ==
    [booth EXCEPT !.occupied = TRUE, !.serverId = Some(serverId)]

\* releaseServer with the occupied flag left set
releaseServerStillOccupied(booth) == [booth EXCEPT !.serverId = None]

\* Booth.releaseServer
releaseServer(booth) == [booth EXCEPT !.occupied = FALSE, !.serverId = None]

\* Booth.isAvailable
BoothIsAvailable(booth) == ~booth.occupied

\* ------------------------------------------------------------- the instance
\* The mutable fields of one QueueSimulator, as one record the sweeps of a
\* tick are applied to in turn.
Sim ==
    [servers |-> servers, booths |-> booths, queues |-> queues,
     simulationTime |-> simulationTime,
     totalCustomersServed |-> totalCustomersServed,
     totalCustomersAbandoned |-> totalCustomersAbandoned,
     completedCustomers |-> completedCustomers,
     abandonedCustomers |-> abandonedCustomers,
     roundRobinIndex |-> roundRobinIndex]

\* MainWindow.__init__ and MicrobitCommunicator.__init__: the GUI thread is
\* in the event loop, no signal is pending, the communicator is neither
\* connected nor listening and has no thread.  (An instance used without a
\* window stays in this state.)
WindowInit ==
    /\ guiAt = "eventLoop"
    /\ events = <<>>
    /\ connected = FALSE
    /\ listening = FALSE
    /\ listenerThread = None
    /\ now = 0
    /\ pausedTime = 0
    /\ received = <<>>
    /\ applied = <<>>

\* QueueSimulator.__init__ with the constructor arguments cfg and the
\* serviceTimes argument times (None, or Some(dict))
ConstructWith(cfg, times) ==
    /\ numServers = cfg[1]
    /\ numBooths = cfg[2]
    /\ dispatchStrategy = cfg[3]
    /\ abandonmentEnabled = cfg[4]
    /\ serviceTimes = IF times # None THEN times[1] ELSE defaultServiceTimes
    /\ servers = [i \in 0..(numServers - 1) |-> Server(i)]
    /\ booths = [i \in 0..(numBooths - 1) |-> Booth(i)]
    /\ queues = [c \in Categories |-> <<>>]
    /\ simulationTime = 0
    /\ lastUpdateTime = None
    /\ totalCustomersServed = 0
    /\ totalCustomersAbandoned = 0
    /\ completedCustomers = <<>>
    /\ abandonedCustomers = <<>>
    /\ roundRobinIndex = 0
    /\ running = FALSE
    /\ nextId = 1
    /\ lastOp = [name |-> "init", arg |-> None, ret |-> None]
    /\ WindowInit

\* QueueSimulator.__init__ with serviceTimes left at its default
Construct(cfg) == ConstructWith(cfg, None)

Init == \E cfg \in Configs : Construct(cfg)
InitAll == \E cfg \in AllConfigs : Construct(cfg)

\* ------------------------------------------------------- dispatch strategies
\* What one selection hands back: the customer (or None) and the instance
\* with that customer removed from its queue.
NoCustomer(s) == [customer |-> None, sim |-> s]

\* a selection that reads queue[0] and leaves it in the queue
PopLeftKeepsHead(s, serviceType) ==
    [customer |-> Some(Head(s.queues[serviceType])), sim |-> s]

\* a selection that takes the newest customer of the queue: pop()
PopRight(s, serviceType) ==
    [customer |-> Some(s.queues[serviceType][Len(s.queues[serviceType])]),
     sim |-> [s EXCEPT !.queues[serviceType] = SubSeq(@, 1, Len(@) - 1)]]

\* selectedQueue.popleft() / queue.popleft()
PopLeft(s, serviceType) ==
    [customer |-> Some(Head(s.queues[serviceType])),
     sim |-> [s EXCEPT !.queues[serviceType] = Tail(@)]]

\* the loop with waitTime >= longestWaitTime: the last of equal waits wins
RECURSIVE LongestWaitScanLastOnTie(_, _, _, _)
LongestWaitScanLastOnTie(s, i, longestWaitTime, selected) ==
    IF i > Len(serviceTypesList) THEN selected
    ELSE LET queue == s.queues[serviceTypesList[i]]
         IN IF queue # <<>>
                /\ s.simulationTime - Head(queue).queueJoinTime >= longestWaitTime
            THEN LongestWaitScanLastOnTie(s, i + 1,
                                 s.simulationTime - Head(queue).queueJoinTime,
                                 Some(serviceTypesList[i]))
            ELSE LongestWaitScanLastOnTie(s, i + 1, longestWaitTime, selected)

\* _selectLongestWaitFirst: the loop over self.queues.items(); `selected` is
\* the category of selectedQueue (None while longestWaitCustomer is None)
RECURSIVE LongestWaitScan(_, _, _, _)
LongestWaitScan(s, i, longestWaitTime, selected) ==
    IF i > Len(serviceTypesList) THEN selected
    ELSE LET queue == s.queues[serviceTypesList[i]]
         IN IF queue # <<>>
                /\ s.simulationTime - Head(queue).queueJoinTime > longestWaitTime
            THEN LongestWaitScan(s, i + 1,
                                 s.simulationTime - Head(queue).queueJoinTime,
                                 Some(serviceTypesList[i]))
            ELSE LongestWaitScan(s, i + 1, longestWaitTime, selected)

\* _selectLongestWaitFirst (longestWaitTime starts at -1 minute)
selectLongestWaitFirst(s) ==
    LET selected == LongestWaitScan(s, 1, -1 * Minute, None)
    IN IF selected # None THEN PopLeft(s, selected[1]) ELSE NoCustomer(s)

\* the loop with jobTime <= shortestJobTime: the last of equal categories wins
RECURSIVE ShortestJobScanLastOnTie(_, _, _, _)
ShortestJobScanLastOnTie(s, i, shortestJobTime, selected) ==
    IF i > Len(serviceTypesList) THEN selected
    ELSE LET queue == s.queues[serviceTypesList[i]]
             jobTime == serviceTimes[Head(queue).serviceType]
         IN IF queue # <<>>
                /\ (shortestJobTime = None \/ jobTime <= shortestJobTime[1])
            THEN ShortestJobScanLastOnTie(s, i + 1, Some(jobTime),
                                          Some(serviceTypesList[i]))
            ELSE ShortestJobScanLastOnTie(s, i + 1, shortestJobTime, selected)

\* _selectShortestJobFirst: the loop; shortestJobTime None stands for inf
RECURSIVE ShortestJobScan(_, _, _, _)
ShortestJobScan(s, i, shortestJobTime, selected) ==
    IF i > Len(serviceTypesList) THEN selected
    ELSE LET queue == s.queues[serviceTypesList[i]]
             jobTime == serviceTimes[Head(queue).serviceType]
         IN IF queue # <<>>
                /\ (shortestJobTime = None \/ jobTime < shortestJobTime[1])
            THEN ShortestJobScan(s, i + 1, Some(jobTime), Some(serviceTypesList[i]))
            ELSE ShortestJobScan(s, i + 1, shortestJobTime, selected)

\* _selectShortestJobFirst
selectShortestJobFirst(s) ==
    LET selected == ShortestJobScan(s, 1, None, None)
    IN IF selected # None THEN PopLeft(s, selected[1]) ELSE NoCustomer(s)

\* the while loop giving up one attempt early
RECURSIVE RoundRobinScanOneShort(_, _)
RoundRobinScanOneShort(s, attempts) ==
    IF attempts >= Len(serviceTypesList) - 1 THEN NoCustomer(s)
    ELSE LET serviceType == serviceTypesList[s.roundRobinIndex + 1]
             s1 == [s EXCEPT !.roundRobinIndex = (@ + 1) % Len(serviceTypesList)]
         IN IF s1.queues[serviceType] # <<>>
            THEN PopLeft(s1, serviceType)
            ELSE RoundRobinScanOneShort(s1, attempts + 1)

\* the while loop with the cursor advanced only past an empty queue
RECURSIVE RoundRobinScanStaysOnHit(_, _)
RoundRobinScanStaysOnHit(s, attempts) ==
    IF attempts >= Len(serviceTypesList) THEN NoCustomer(s)
    ELSE LET serviceType == serviceTypesList[s.roundRobinIndex + 1]
             s1 == [s EXCEPT !.roundRobinIndex = (@ + 1) % Len(serviceTypesList)]
         IN IF s.queues[serviceType] # <<>>
            THEN PopLeft(s, serviceType)
            ELSE RoundRobinScanStaysOnHit(s1, attempts + 1)

\* the while loop with the cursor moved on once more when a customer is found
RECURSIVE RoundRobinScanJumpsOnHit(_, _)
RoundRobinScanJumpsOnHit(s, attempts) ==
    IF attempts >= Len(serviceTypesList) THEN NoCustomer(s)
    ELSE LET serviceType == serviceTypesList[s.roundRobinIndex + 1]
             s1 == [s EXCEPT !.roundRobinIndex = (@ + 1) % Len(serviceTypesList)]
         IN IF s1.queues[serviceType] # <<>>
            THEN PopLeft([s1 EXCEPT !.roundRobinIndex =
                                        (@ + 1) % Len(serviceTypesList)],
                         serviceType)
            ELSE RoundRobinScanJumpsOnHit(s1, attempts + 1)

\* _selectRoundRobin: the while loop
RECURSIVE RoundRobinScan(_, _)
RoundRobinScan(s, attempts) ==
    IF attempts >= Len(serviceTypesList) THEN NoCustomer(s)
    ELSE LET serviceType == serviceTypesList[s.roundRobinIndex + 1]
             s1 == [s EXCEPT !.roundRobinIndex = (@ + 1) % Len(serviceTypesList)]
         IN IF s1.queues[serviceType] # <<>>
            THEN PopLeft(s1, serviceType)
            ELSE RoundRobinScan(s1, attempts + 1)

\* _selectRoundRobin
selectRoundRobin(s) == RoundRobinScan(s, 0)

\* _selectRoundRobin: the number of iterations of the while loop, each of
\* which inspects one category
RECURSIVE RoundRobinAttempts(_, _)
RoundRobinAttempts(s, attempts) ==
    IF attempts >= Len(serviceTypesList) THEN attempts
    ELSE LET serviceType == serviceTypesList[s.roundRobinIndex + 1]
             s1 == [s EXCEPT !.roundRobinIndex = (@ + 1) % Len(serviceTypesList)]
         IN IF s1.queues[serviceType] # <<>>
            THEN attempts + 1
            ELSE RoundRobinAttempts(s1, attempts + 1)

\* _selectPriorityOrder: the for loop
RECURSIVE PriorityScan(_, _)
PriorityScan(s, i) ==
    IF i > Len(priorityOrder) THEN NoCustomer(s)
    ELSE IF s.queues[priorityOrder[i]] # <<>>
         THEN PopLeft(s, priorityOrder[i])
         ELSE PriorityScan(s, i + 1)

\* _selectPriorityOrder
selectPriorityOrder(s) == PriorityScan(s, 1)

\* _selectNextCustomer
selectNextCustomer(s) ==
    IF dispatchStrategy = LONGEST_WAIT_FIRST THEN selectLongestWaitFirst(s)
    ELSE IF dispatchStrategy = SHORTEST_JOB_FIRST THEN selectShortestJobFirst(s)
    ELSE IF dispatchStrategy = ROUND_ROBIN THEN selectRoundRobin(s)
    ELSE IF dispatchStrategy = PRIORITY_ORDER THEN selectPriorityOrder(s)
    ELSE selectLongestWaitFirst(s)

\* ---------------------------------------------------------- completion sweep
\* _checkCompletedServices: the body of the loop for one server
CompleteService(s, i) ==
    LET server == s.servers[i]
        boothId == server.currentBoothId
        customer == [server.currentCustomer[1] EXCEPT
                         !.serviceEndTime = Some(s.simulationTime),
                         !.outcome = Some("completed")]
        booths1 == IF boothId # None
                   THEN [s.booths EXCEPT ![boothId[1]] = releaseServer(@)]
                   ELSE s.booths
    IN [s EXCEPT !.servers[i] = finishService(server),
                 !.booths = booths1,
                 !.completedCustomers = Append(@, customer),
                 !.totalCustomersServed = @ + 1]

\* the loop with the comparison simulationTime > serviceEndTime
RECURSIVE CheckCompletedFromStrict(_, _)
CheckCompletedFromStrict(s, i) ==
    IF i >= numServers THEN s
    ELSE IF s.servers[i].state = BUSY
            /\ s.simulationTime > s.servers[i].serviceEndTime[1]
         THEN CheckCompletedFromStrict(CompleteService(s, i), i + 1)
         ELSE CheckCompletedFromStrict(s, i + 1)

\* _checkCompletedServices: for server in self.servers, from index i on
RECURSIVE CheckCompletedFrom(_, _)
CheckCompletedFrom(s, i) ==
    IF i >= numServers THEN s
    ELSE IF s.servers[i].state = BUSY
            /\ s.simulationTime >= s.servers[i].serviceEndTime[1]
         THEN CheckCompletedFrom(CompleteService(s, i), i + 1)
         ELSE CheckCompletedFrom(s, i + 1)

\* _checkCompletedServices
checkCompletedServices(s) == CheckCompletedFrom(s, 0)

\* --------------------------------------------------------- abandonment sweep
\* abandonProb without the five minutes of grace: 0.05 per minute waited
AbandonProbNoGrace(waitTime) ==
    LET p == IF waitTime > 0 THEN (5 * waitTime) \div Minute ELSE 0
    IN IF p < 50 THEN p ELSE 50

\* abandonProb with nothing in place of the second rate: 0.05 per minute over
\* 5 minutes, 0 once the wait is over 10 minutes
AbandonProbNoneOverTen(waitTime) ==
    IF waitTime > 5 * Minute /\ waitTime <= 10 * Minute
    THEN (5 * (waitTime - 5 * Minute)) \div Minute ELSE 0

\* _checkAbandonments: abandonProb for a wait, in percent.  0.05 per minute
\* over 5 minutes, 0.15 per minute once the wait is over 10 minutes, capped
\* at 0.5.
AbandonProb(waitTime) ==
    LET p1 == IF waitTime > 5 * Minute
              THEN (5 * (waitTime - 5 * Minute)) \div Minute ELSE 0
        p2 == IF waitTime > 10 * Minute
              THEN (15 * (waitTime - 5 * Minute)) \div Minute ELSE p1
    IN IF p2 < 50 THEN p2 ELSE 50

\* _checkAbandonments: random.random() < abandonProb * (1.0 / timeAcceleration)
\* for the customer at position i of queue serviceType.  `draws` holds the
\* positions at which random.random() came out 0.0; everywhere else it came
\* out above every threshold (the threshold is at most 0.5 / timeAcceleration).
Abandons(s, serviceType, i, draws) ==
    /\ <<serviceType, i>> \in draws
    /\ AbandonProb(s.simulationTime - s.queues[serviceType][i].queueJoinTime) > 0

\* the customers of a queue in queue order, restricted to the positions in keep
RECURSIVE SubQueue(_, _, _)
SubQueue(queue, i, keep) ==
    IF i > Len(queue) THEN <<>>
    ELSE IF i \in keep THEN <<queue[i]>> \o SubQueue(queue, i + 1, keep)
         ELSE SubQueue(queue, i + 1, keep)

\* the eviction with the outcome set and serviceEndTime left alone
MarkAbandonedOutcomeOnly(s, queue) ==
    [i \in 1..Len(queue) |-> [queue[i] EXCEPT !.outcome = Some("abandoned")]]

\* _checkAbandonments: customer.outcome = 'abandoned'; serviceEndTime = now
MarkAbandoned(s, queue) ==
    [i \in 1..Len(queue) |->
        [queue[i] EXCEPT !.outcome = Some("abandoned"),
                         !.serviceEndTime = Some(s.simulationTime)]]

\* the outer loop's body without the final queue.remove(customer)
AbandonFromQueueStaysQueued(s, serviceType, draws) ==
    LET queue == s.queues[serviceType]
        gone == {i \in 1..Len(queue) : Abandons(s, serviceType, i, draws)}
        customersToRemove == MarkAbandoned(s, SubQueue(queue, 1, gone))
    IN [s EXCEPT !.abandonedCustomers = @ \o customersToRemove,
                 !.totalCustomersAbandoned = @ + Len(customersToRemove)]

\* _checkAbandonments: the body of the outer loop for one queue
AbandonFromQueue(s, serviceType, draws) ==
    LET queue == s.queues[serviceType]
        gone == {i \in 1..Len(queue) : Abandons(s, serviceType, i, draws)}
        customersToRemove == MarkAbandoned(s, SubQueue(queue, 1, gone))
    IN [s EXCEPT !.queues[serviceType] = SubQueue(queue, 1, (1..Len(queue)) \ gone),
                 !.abandonedCustomers = @ \o customersToRemove,
                 !.totalCustomersAbandoned = @ + Len(customersToRemove)]

\* _checkAbandonments: for serviceType, queue in self.queues.items(), from i on
RECURSIVE CheckAbandonmentsFrom(_, _, _)
CheckAbandonmentsFrom(s, i, draws) ==
    IF i > Len(serviceTypesList) THEN s
    ELSE CheckAbandonmentsFrom(AbandonFromQueue(s, serviceTypesList[i], draws),
                               i + 1, draws)

\* _checkAbandonments
checkAbandonments(s, draws) == CheckAbandonmentsFrom(s, 1, draws)

\* the queue positions whose draw can come out below the threshold
AbandonCandidates(s) ==
    {p \in UNION {{<<c, i>> : i \in 1..Len(s.queues[c])} : c \in Categories} :
        AbandonProb(s.simulationTime - s.queues[p[1]][p[2]].queueJoinTime) > 0}

\* ---------------------------------------------------------- assignment sweep
\* [x for x in self.servers / self.booths if x.isAvailable()], from index i on
RECURSIVE AvailableServers(_, _)
AvailableServers(s, i) ==
    IF i >= numServers THEN <<>>
    ELSE IF ServerIsAvailable(s.servers[i])
         THEN <<i>> \o AvailableServers(s, i + 1)
         ELSE AvailableServers(s, i + 1)

RECURSIVE AvailableBooths(_, _)
AvailableBooths(s, i) ==
    IF i >= numBooths THEN <<>>
    ELSE IF BoothIsAvailable(s.booths[i])
         THEN <<i>> \o AvailableBooths(s, i + 1)
         ELSE AvailableBooths(s, i + 1)

\* serviceTime = self.serviceTimes.get(...) * random.uniform(0.8, 1.2), with
\* the sample of random.uniform given in fifths
ServiceTime(serviceType, jitter) ==
    (serviceTimes[serviceType] * Minute * jitter) \div 5

\* the loop's body without customer.boothId = booth.boothId
AssignCustomerNoBoothId(s, customer0, server, booth, jitter) ==
    LET serviceEndTime == s.simulationTime + ServiceTime(customer0.serviceType, jitter)
        customer == [customer0 EXCEPT !.serviceStartTime = Some(s.simulationTime),
                                      !.serverId = Some(s.servers[server].serverId)]
    IN [s EXCEPT !.servers[server] =
                     startService(@, customer, s.booths[booth].boothId, serviceEndTime),
                 !.booths[booth] = assignServer(@, s.servers[server].serverId)]

\* _assignServersToCustomers: the body of the while loop once a customer has
\* been selected
AssignCustomer(s, customer0, server, booth, jitter) ==
    LET serviceEndTime == s.simulationTime + ServiceTime(customer0.serviceType, jitter)
        customer == [customer0 EXCEPT !.serviceStartTime = Some(s.simulationTime),
                                      !.serverId = Some(s.servers[server].serverId),
                                      !.boothId = Some(s.booths[booth].boothId)]
    IN [s EXCEPT !.servers[server] =
                     startService(@, customer, s.booths[booth].boothId, serviceEndTime),
                 !.booths[booth] = assignServer(@, s.servers[server].serverId)]

\* the while loop with availableBooths[0] read and never popped
RECURSIVE AssignLoopSameBooth(_, _, _, _)
AssignLoopSameBooth(s, availableServers, availableBooths, jitters) ==
    IF availableServers = <<>> \/ availableBooths = <<>> THEN s
    ELSE LET sel == selectNextCustomer(s)
         IN IF sel.customer = None \/ jitters = <<>> THEN s
            ELSE AssignLoopSameBooth(
                     AssignCustomer(sel.sim, sel.customer[1],
                                    Head(availableServers),
                                    Head(availableBooths), Head(jitters)),
                     Tail(availableServers), availableBooths, Tail(jitters))

\* the while loop with availableServers[0] read and never popped
RECURSIVE AssignLoopSameServer(_, _, _, _)
AssignLoopSameServer(s, availableServers, availableBooths, jitters) ==
    IF availableServers = <<>> \/ availableBooths = <<>> THEN s
    ELSE LET sel == selectNextCustomer(s)
         IN IF sel.customer = None \/ jitters = <<>> THEN s
            ELSE AssignLoopSameServer(
                     AssignCustomer(sel.sim, sel.customer[1],
                                    Head(availableServers),
                                    Head(availableBooths), Head(jitters)),
                     availableServers, Tail(availableBooths), Tail(jitters))

\* _assignServersToCustomers: the while loop; jitters holds the samples of
\* random.uniform for the iterations still to come
RECURSIVE AssignLoop(_, _, _, _)
AssignLoop(s, availableServers, availableBooths, jitters) ==
    IF availableServers = <<>> \/ availableBooths = <<>> THEN s
    ELSE LET sel == selectNextCustomer(s)
         IN IF sel.customer = None THEN s
            ELSE AssignLoop(AssignCustomer(sel.sim, sel.customer[1],
                                           Head(availableServers),
                                           Head(availableBooths), Head(jitters)),
                            Tail(availableServers), Tail(availableBooths),
                            Tail(jitters))

\* _assignServersToCustomers
assignServersToCustomers(s, jitters) ==
    AssignLoop(s, AvailableServers(s, 0), AvailableBooths(s, 0), jitters)

\* the number of iterations of the while loop that assign a customer (the
\* number of random.uniform samples the sweep consumes)
RECURSIVE CountAssignments(_, _)
CountAssignments(s, pairs) ==
    IF pairs = 0 THEN 0
    ELSE LET sel == selectNextCustomer(s)
         IN IF sel.customer = None THEN 0
            ELSE 1 + CountAssignments(sel.sim, pairs - 1)

NumAssignments(s) ==
    LET a == Len(AvailableServers(s, 0))
        b == Len(AvailableBooths(s, 0))
    IN CountAssignments(s, IF a < b THEN a ELSE b)

\* ------------------------------------------------------------------- update
\* simDeltaTime = realDeltaTime * self.timeAcceleration / 60.0, with the
\* wall-clock delta in wall units and the result in time units
SimDeltaTime(realDeltaTime) ==
    (realDeltaTime * WallUnit * timeAcceleration * Minute) \div 60

\* the abandonment sweep run when self.abandonmentEnabled is False
abandonmentSweepWhenDisabled(s, draws) ==
    IF abandonmentEnabled THEN s ELSE checkAbandonments(s, draws)

\* the abandonment sweep run whatever self.abandonmentEnabled says
abandonmentSweepAlways(s, draws) == checkAbandonments(s, draws)

\* update, lines 188-190: if self.abandonmentEnabled: self._checkAbandonments()
abandonmentSweep(s, draws) ==
    IF abandonmentEnabled THEN checkAbandonments(s, draws) ELSE s

\* update, lines 178-193: the state advancing part of a tick
Advance(s, currentRealTime, draws, jitters) ==
    LET s0 == [s EXCEPT !.simulationTime =
                   @ + SimDeltaTime(currentRealTime - lastUpdateTime[1])]
        s1 == checkCompletedServices(s0)
        s2 == abandonmentSweep(s1, draws)
    IN assignServersToCustomers(s2, jitters)

\* the instance after the completion (and abandonment) sweep of a tick
AfterCompletion(s, currentRealTime) ==
    checkCompletedServices([s EXCEPT !.simulationTime =
                   @ + SimDeltaTime(currentRealTime - lastUpdateTime[1])])

AfterAbandonment(s, currentRealTime, draws) ==
    abandonmentSweep(AfterCompletion(s, currentRealTime), draws)

\* the instance's fields take the values of record s
Becomes(s) ==
    /\ servers' = s.servers
    /\ booths' = s.booths
    /\ queues' = s.queues
    /\ simulationTime' = s.simulationTime
    /\ totalCustomersServed' = s.totalCustomersServed
    /\ totalCustomersAbandoned' = s.totalCustomersAbandoned
    /\ completedCustomers' = s.completedCustomers
    /\ abandonedCustomers' = s.abandonedCustomers
    /\ roundRobinIndex' = s.roundRobinIndex
    /\ UNCHANGED running

\* the first tick without its early return: a zero delta, then the sweeps
UpdateFirstRunsSweeps(currentRealTime) ==
    /\ lastUpdateTime = None
    /\ \E jitters \in [1..NumAssignments(checkCompletedServices(Sim)) -> Jitter] :
          Becomes(assignServersToCustomers(checkCompletedServices(Sim), jitters))
    /\ lastUpdateTime' = Some(currentRealTime)
    /\ lastOp' = [name |-> "update", arg |-> Some(currentRealTime), ret |-> None]
    /\ UNCHANGED <<config, nextId, windowVars>>

\* update, lines 174-176: the first tick after construction or reset
UpdateFirstCall(currentRealTime) ==
    /\ lastUpdateTime = None
    /\ lastUpdateTime' = Some(currentRealTime)
    /\ lastOp' = [name |-> "update", arg |-> Some(currentRealTime), ret |-> None]
    /\ UNCHANGED <<config, servers, booths, queues, simulationTime,
                   totalCustomersServed, totalCustomersAbandoned,
                   completedCustomers, abandonedCustomers, roundRobinIndex,
                   running, nextId>>

\* the same, called where no window is
UpdateFirst(currentRealTime) ==
    UpdateFirstCall(currentRealTime) /\ UNCHANGED windowVars

\* the samples of random.random() a tick consumed: none unless the abandonment
\* sweep is enabled
ConsumedDraws(draws) == IF abandonmentEnabled THEN draws ELSE {}

\* update, lines 178-193.  draws is what random.random() would give at each
\* queue position, jitters what random.uniform gives at each assignment; s1,
\* s2 and s3 are the instance after the completion sweep, after the
\* abandonment sweep and after the assignment sweep (s3 is
\* Advance(Sim, currentRealTime, draws, jitters)).
UpdateAdvanceCall(currentRealTime) ==
    /\ lastUpdateTime # None
    /\ \E s1 \in {AfterCompletion(Sim, currentRealTime)} :
       \E draws \in SUBSET AbandonCandidates(s1) :
       \E s2 \in {abandonmentSweep(s1, draws)} :
       \E jitters \in [1..NumAssignments(s2) -> Jitter] :
       \E s3 \in {assignServersToCustomers(s2, jitters)} :
          /\ Becomes(s3)
          /\ lastOp' = [name |-> "update", arg |-> Some(currentRealTime),
                        ret |-> Some(<<ConsumedDraws(draws), jitters>>)]
    /\ lastUpdateTime' = Some(currentRealTime)
    /\ UNCHANGED <<config, nextId>>

\* the same, called where no window is
UpdateAdvance(currentRealTime) ==
    UpdateAdvanceCall(currentRealTime) /\ UNCHANGED windowVars

\* QueueSimulator.update
Update ==
    \/ \E currentRealTime \in FirstReadings : UpdateFirst(currentRealTime)
    \/ \E currentRealTime \in WallReadings : UpdateAdvance(currentRealTime)

\* -------------------------------------------------------------- addCustomer
\* addCustomer with appendleft in place of append
AddCustomerSimAtHead(s, serviceType) ==
    IF serviceType \notin DOMAIN s.queues THEN s
    ELSE [s EXCEPT !.queues[serviceType] =
                       <<Customer(nextId, serviceType, s.simulationTime)>> \o @]

\* addCustomer: the instance after the call
AddCustomerSim(s, serviceType) ==
    IF serviceType \notin DOMAIN s.queues THEN s
    ELSE [s EXCEPT !.queues[serviceType] =
                       Append(@, Customer(nextId, serviceType, s.simulationTime))]

\* the Customer constructed before the category is checked
AddCustomerNextIdAlways(serviceType) == nextId + 1

\* addCustomer: Customer._nextId after the call
AddCustomerNextId(serviceType) ==
    IF serviceType \notin DOMAIN queues THEN nextId ELSE nextId + 1

\* addCustomer: the value returned
AddCustomerResult(serviceType) ==
    IF serviceType \notin DOMAIN queues THEN None
    ELSE Some(Customer(nextId, serviceType, simulationTime))

\* QueueSimulator.addCustomer(serviceType)
AddCustomerCall(serviceType) ==
    /\ Becomes(AddCustomerSim(Sim, serviceType))
    /\ nextId' = AddCustomerNextId(serviceType)
    /\ lastOp' = [name |-> "addCustomer", arg |-> Some(serviceType),
                  ret |-> AddCustomerResult(serviceType)]
    /\ UNCHANGED <<config, lastUpdateTime>>

\* the same, called where no window is
AddCustomerOf(serviceType) ==
    AddCustomerCall(serviceType) /\ UNCHANGED windowVars

\* QueueSimulator.addCustomer, while fewer than limit customers were created
AddCustomerWithin(limit) == \E serviceType \in ServiceTypeInputs :
    /\ nextId <= limit
    /\ AddCustomerOf(serviceType)

\* QueueSimulator.addCustomer
AddCustomer == AddCustomerWithin(MaxCustomers)

\* -------------------------------------------------------------------- reset
\* reset with the servers left as they are
ResetSimKeepsServers(s) ==
    [s EXCEPT !.booths = [i \in DOMAIN s.booths |->
                              [s.booths[i] EXCEPT !.occupied = FALSE,
                                                  !.serverId = None]],
              !.queues = [c \in DOMAIN s.queues |-> <<>>],
              !.simulationTime = 0,
              !.totalCustomersServed = 0,
              !.totalCustomersAbandoned = 0,
              !.completedCustomers = <<>>,
              !.abandonedCustomers = <<>>]

\* reset: the instance after the call (roundRobinIndex is not assigned)
ResetSim(s) ==
    [s EXCEPT !.servers = [i \in DOMAIN s.servers |->
                              [s.servers[i] EXCEPT !.state = SPARE,
                                                   !.currentCustomer = None,
                                                   !.currentBoothId = None,
                                                   !.serviceEndTime = None]],
              !.booths = [i \in DOMAIN s.booths |->
                              [s.booths[i] EXCEPT !.occupied = FALSE,
                                                  !.serverId = None]],
              !.queues = [c \in DOMAIN s.queues |-> <<>>],
              !.simulationTime = 0,
              !.totalCustomersServed = 0,
              !.totalCustomersAbandoned = 0,
              !.completedCustomers = <<>>,
              !.abandonedCustomers = <<>>]

\* QueueSimulator.reset
ResetCall ==
    /\ Becomes(ResetSim(Sim))
    /\ lastUpdateTime' = None
    /\ nextId' = 1
    /\ lastOp' = [name |-> "reset", arg |-> None, ret |-> None]
    /\ UNCHANGED config

\* the same, called where no window is
Reset == ResetCall /\ UNCHANGED windowVars

Next == Update \/ AddCustomer \/ Reset

Spec == Init /\ [][Next]_vars

\* the same instance under every combination of the constructor arguments
SpecAll == InitAll /\ [][Next]_vars

\* a ShortestJobFirst instance with the default service times or with tied ones
InitShortestJob ==
    \E times \in {None, Some(tiedServiceTimes)} :
       ConstructWith(<<2, 1, SHORTEST_JOB_FIRST, FALSE>>, times)

SpecShortestJob == InitShortestJob /\ [][Next]_vars

\* a PriorityOrder instance
InitPriority == Construct(<<1, 2, PRIORITY_ORDER, FALSE>>)

SpecPriority == InitPriority /\ [][Next]_vars

\* ------------------------------------------------- the five arrivals scenario
\* testBasicSimulation: 5 servers, 4 booths, LONGEST_WAIT_FIRST, abandonment
\* disabled; five addCustomer calls at simulated time 0 with no tick between
\* them, then update calls
scenarioArrivals ==
    <<"standard_post", "passports", "parcels", "standard_post", "passports">>

InitScenario == Construct(<<5, 4, LONGEST_WAIT_FIRST, FALSE>>)

\* the next addCustomer call of the scenario
ScenarioArrive ==
    /\ nextId <= Len(scenarioArrivals)
    /\ simulationTime = 0
    /\ nextId = 1 \/ lastOp.name = "addCustomer"
    /\ AddCustomerOf(scenarioArrivals[nextId])

\* readings of time.time() at the first tick of the scenario: later readings
\* (WallReadings) lie before it, at it and after it
ScenarioFirstReadings == {0, 3}

\* update, before the first arrival or after the last
ScenarioUpdate ==
    /\ nextId = 1 \/ nextId > Len(scenarioArrivals)
    /\ \/ \E currentRealTime \in ScenarioFirstReadings : UpdateFirst(currentRealTime)
       \/ \E currentRealTime \in WallReadings : UpdateAdvance(currentRealTime)

NextScenario == ScenarioArrive \/ ScenarioUpdate

SpecScenario == InitScenario /\ [][NextScenario]_vars

\* ------------------------------------------------- the selection on its own
\* one call of _selectNextCustomer, as the assignment sweep makes it; the
\* customer handed back leaves the queues
SelectNext ==
    LET sel == selectNextCustomer(Sim)
    IN /\ Becomes(sel.sim)
       /\ lastOp' = [name |-> "selectNextCustomer", arg |-> None,
                     ret |-> sel.customer]
       /\ UNCHANGED <<config, nextId, lastUpdateTime, windowVars>>

\* a RoundRobin instance on which arrivals, selections and resets are run:
\* the queues and the cursor a selection can meet
InitRoundRobin == Construct(<<1, 1, ROUND_ROBIN, FALSE>>)

NextRoundRobin == AddCustomerWithin(MaxQueued) \/ SelectNext \/ Reset

SpecRoundRobin == InitRoundRobin /\ [][NextRoundRobin]_vars

\* ------------------------------------------------ the abandonment sweep's range
\* readings of time.time() that put simulated time at 0, 5 and 10 minutes:
\* waits of exactly 5 and of exactly 10 minutes occur
AbandonReadings == {0, 5, 10}
\* readings that put simulated time at 0, 5 and 11 minutes: waits of 6 and of
\* more than 10 minutes occur
LongWaitReadings == {0, 5, 11}
\* addCustomer's argument where abandonment is looked at: the category with
\* the longest service, so that all waiting customers stand in one queue
AbandonArrivals == {"passports"}

\* an instance with abandonment enabled in which one server and one booth
\* leave customers waiting
InitAbandon == Construct(<<1, 1, LONGEST_WAIT_FIRST, TRUE>>)

\* QueueSimulator.update with time.time() giving one of `readings`
UpdateAt(readings) ==
    \/ \E currentRealTime \in FirstReadings : UpdateFirst(currentRealTime)
    \/ \E currentRealTime \in readings : UpdateAdvance(currentRealTime)

\* QueueSimulator.addCustomer with one of those arguments, while fewer than
\* limit customers were created
AbandonArrive(limit) == \E serviceType \in AbandonArrivals :
    /\ nextId <= limit
    /\ AddCustomerOf(serviceType)

NextAbandon == UpdateAt(AbandonReadings) \/ AbandonArrive(MaxWaiting) \/ Reset

SpecAbandon == InitAbandon /\ [][NextAbandon]_vars

\* ---------------------------------------------------------------- accessors
\* Customer.getWaitDuration (a serviceStartTime of None or 0.0 is falsy)
getWaitDuration(c) ==
    IF c.serviceStartTime # None /\ c.serviceStartTime[1] # 0
    THEN Some(c.serviceStartTime[1] - c.queueJoinTime) ELSE None

\* Customer.getServiceDuration
getServiceDuration(c) ==
    IF /\ c.serviceStartTime # None /\ c.serviceStartTime[1] # 0
       /\ c.serviceEndTime # None /\ c.serviceEndTime[1] # 0
    THEN Some(c.serviceEndTime[1] - c.serviceStartTime[1]) ELSE None

\* x or 0
OrZero(x) == IF x # None /\ x[1] # 0 THEN x[1] ELSE 0

\* sum(f(c) or 0 for c in customers)
RECURSIVE SumWait(_)
SumWait(customers) ==
    IF customers = <<>> THEN 0
    ELSE OrZero(getWaitDuration(Head(customers))) + SumWait(Tail(customers))

RECURSIVE SumService(_)
SumService(customers) ==
    IF customers = <<>> THEN 0
    ELSE OrZero(getServiceDuration(Head(customers))) + SumService(Tail(customers))

\* getQueueLengths
getQueueLengths == [serviceType \in DOMAIN queues |-> Len(queues[serviceType])]

\* getStatistics; a mean is given as the fraction num / den
getStatistics ==
    LET totalCustomers == Len(completedCustomers) + Len(abandonedCustomers)
        den == IF Len(completedCustomers) > 1 THEN Len(completedCustomers) ELSE 1
    IN IF totalCustomers = 0
       THEN [totalCustomers |-> 0, totalServed |-> 0, totalAbandoned |-> 0,
             avgWaitTime |-> [num |-> 0, den |-> 1],
             avgServiceTime |-> [num |-> 0, den |-> 1],
             simulationTime |-> simulationTime]
       ELSE [totalCustomers |-> totalCustomers,
             totalServed |-> totalCustomersServed,
             totalAbandoned |-> totalCustomersAbandoned,
             avgWaitTime |-> [num |-> SumWait(completedCustomers), den |-> den],
             avgServiceTime |-> [num |-> SumService(completedCustomers), den |-> den],
             simulationTime |-> simulationTime]

\* getServerStates (a serviceEndTime of None or 0.0 is falsy)
getServerStates ==
    [i \in DOMAIN servers |->
        [serverId |-> servers[i].serverId,
         state |-> servers[i].state,
         boothId |-> servers[i].currentBoothId,
         customerId |-> IF servers[i].currentCustomer # None
                        THEN Some(servers[i].currentCustomer[1].customerId)
                        ELSE None,
         serviceType |-> IF servers[i].currentCustomer # None
                         THEN Some(servers[i].currentCustomer[1].serviceType)
                         ELSE None,
         timeRemaining |->
             IF servers[i].serviceEndTime # None /\ servers[i].serviceEndTime[1] # 0
             THEN (IF servers[i].serviceEndTime[1] - simulationTime > 0
                   THEN servers[i].serviceEndTime[1] - simulationTime ELSE 0)
             ELSE 0]]

\* getBoothStates
getBoothStates ==
    [b \in DOMAIN booths |->
        [boothId |-> booths[b].boothId,
         occupied |-> booths[b].occupied,
         serverId |-> booths[b].serverId]]

\* a getStatistics that empties the histories it has summed up
GetStatisticsDrains ==
    /\ lastOp' = [name |-> "getStatistics", arg |-> None,
                  ret |-> Some(getStatistics)]
    /\ completedCustomers' = <<>>
    /\ abandonedCustomers' = <<>>
    /\ UNCHANGED <<config, servers, booths, queues, simulationTime,
                   lastUpdateTime, totalCustomersServed, totalCustomersAbandoned,
                   roundRobinIndex, running, nextId, windowVars>>

\* a call of getStatistics: the method assigns no attribute
GetStatistics ==
    /\ lastOp' = [name |-> "getStatistics", arg |-> None,
                  ret |-> Some(getStatistics)]
    /\ UNCHANGED <<config, simVars, nextId, windowVars>>

\* a call of getQueueLengths
GetQueueLengths ==
    /\ lastOp' = [name |-> "getQueueLengths", arg |-> None,
                  ret |-> Some(getQueueLengths)]
    /\ UNCHANGED <<config, simVars, nextId, windowVars>>

\* a call of getServerStates
GetServerStates ==
    /\ lastOp' = [name |-> "getServerStates", arg |-> None,
                  ret |-> Some(getServerStates)]
    /\ UNCHANGED <<config, simVars, nextId, windowVars>>

\* a call of getBoothStates
GetBoothStates ==
    /\ lastOp' = [name |-> "getBoothStates", arg |-> None,
                  ret |-> Some(getBoothStates)]
    /\ UNCHANGED <<config, simVars, nextId, windowVars>>

\* ------------------------------------------------------------------ helpers
BusyServers == {i \in DOMAIN servers : servers[i].state = BUSY}
OccupiedBooths == {b \in DOMAIN booths : booths[b].occupied}

Min(a, b) == IF a < b THEN a ELSE b

RECURSIVE SumLen(_, _)
SumLen(qs, i) ==
    IF i > Len(serviceTypesList) THEN 0
    ELSE Len(qs[serviceTypesList[i]]) + SumLen(qs, i + 1)

\* the number of customers waiting in the queues qs
Waiting(qs) == SumLen(qs, 1)

\* the customers waiting in the queues qs, queue after queue
AllQueued(qs) ==
    qs[serviceTypesList[1]] \o qs[serviceTypesList[2]] \o qs[serviceTypesList[3]]

\* the customers in service, in server order
RECURSIVE InService(_, _)
InService(svs, i) ==
    IF i \notin DOMAIN svs THEN <<>>
    ELSE (IF svs[i].currentCustomer # None THEN svs[i].currentCustomer ELSE <<>>)
         \o InService(svs, i + 1)

\* every customer the instance holds: queued, in service, completed, abandoned
Held == AllQueued(queues) \o InService(servers, 0)
        \o completedCustomers \o abandonedCustomers

\* the ids of the customers in a list
Ids(customers) == {customers[k].customerId : k \in 1..Len(customers)}

\* customer id is waiting in a queue and has waited more than 10 minutes
QueuedOverTen(id) ==
    \E k \in 1..Len(AllQueued(queues)) :
       /\ AllQueued(queues)[k].customerId = id
       /\ simulationTime - AllQueued(queues)[k].queueJoinTime > 10 * Minute

\* the step just taken was a state advancing tick / the first tick
IsAdvance == lastOp.name = "update" /\ lastOp.ret # None
IsFirstTick == lastOp.name = "update" /\ lastOp.ret = None

\* ------------------------------------------------- a run replayed on an instance
\* the fields of a newly constructed instance with this instance's
\* configuration (__init__, lines 135-159)
FreshSim ==
    [servers |-> [i \in 0..(numServers - 1) |-> Server(i)],
     booths |-> [i \in 0..(numBooths - 1) |-> Booth(i)],
     queues |-> [c \in Categories |-> <<>>],
     simulationTime |-> 0,
     totalCustomersServed |-> 0,
     totalCustomersAbandoned |-> 0,
     completedCustomers |-> <<>>,
     abandonedCustomers |-> <<>>,
     roundRobinIndex |-> 0]

\* addCustomer called with each of `arrivals` in turn, Customer._nextId
\* standing at id before the first call
RECURSIVE ArriveAll(_, _, _)
ArriveAll(s, arrivals, id) ==
    IF arrivals = <<>> THEN s
    ELSE ArriveAll([s EXCEPT !.queues[Head(arrivals)] =
                        Append(@, Customer(id, Head(arrivals), s.simulationTime))],
                   Tail(arrivals), id + 1)

\* update, lines 178-193, on instance s for a wall-clock delta, with
\* random.random() never below its threshold and random.uniform giving
\* jitter at every assignment
TickBy(s, realDeltaTime, jitter) ==
    assignServersToCustomers(
        abandonmentSweep(
            checkCompletedServices(
                [s EXCEPT !.simulationTime = @ + SimDeltaTime(realDeltaTime)]),
            {}),
        [i \in 1..numServers |-> jitter])

\* the addCustomer calls `arrivals` on an instance on which no customer has
\* been created since construction or reset, then the tick that records the
\* reference point, then a tick realDeltaTime later
Replay(s, arrivals, realDeltaTime, jitter) ==
    TickBy(ArriveAll(s, arrivals, 1), realDeltaTime, jitter)

\* what a caller can see of an instance: who is served where, who waits, the
\* histories, the counters and the clock
Observable(s) ==
    <<s.servers, s.booths, s.queues, s.completedCustomers, s.abandonedCustomers,
      s.totalCustomersServed, s.totalCustomersAbandoned, s.simulationTime>>

\* arrival sequences of up to two customers
ReplayArrivals ==
    {<<>>} \cup {<<a>> : a \in Categories}
           \cup {<<a, b>> : a \in Categories, b \in Categories}

\* ---------------------------------------------------------- the long wait
\* a state advancing tick whose abandonment sweep evicts customer id, who has
\* been waiting for more than 10 minutes
EvictTick(id) ==
    /\ QueuedOverTen(id)
    /\ \E currentRealTime \in LongWaitReadings : UpdateAdvance(currentRealTime)
    /\ \E k \in 1..Len(abandonedCustomers') :
          /\ k > Len(abandonedCustomers)
          /\ abandonedCustomers'[k].customerId = id

NextLongWait ==
    UpdateAt(LongWaitReadings) \/ AbandonArrive(MaxCustomers) \/ Reset

\* ticks keep coming and random.random() does not stay above a positive
\* threshold for ever: a customer whom a tick can evict at every moment from
\* some moment on is evicted by one
SpecLongWait ==
    /\ InitAbandon
    /\ [][NextLongWait]_vars
    /\ \A id \in 1..MaxCustomers : WF_vars(EvictTick(id))

\* ------------------------------------------------- the instance looked at
\* the accessors called between the arrivals, ticks and resets of an instance
\* with one server, one booth and abandonment enabled
NextObserved ==
    \/ NextLongWait
    \/ GetStatistics
    \/ GetQueueLengths
    \/ GetServerStates
    \/ GetBoothStates

SpecObserved == InitAbandon /\ [][NextObserved]_vars

\* ------------------------------------------- constructor arguments unchecked
\* __init__ stores numServers and numBooths as given and builds the servers
\* and booths with range(): none for a count of zero or below
UncheckedConfigs ==
    {<<0, 1, LONGEST_WAIT_FIRST, FALSE>>,
     <<-1, 1, LONGEST_WAIT_FIRST, FALSE>>,
     <<1, 0, LONGEST_WAIT_FIRST, TRUE>>,
     <<1, -1, ROUND_ROBIN, FALSE>>,
     <<0, 0, PRIORITY_ORDER, FALSE>>}

InitUnchecked == \E cfg \in UncheckedConfigs : Construct(cfg)

SpecUnchecked == InitUnchecked /\ [][Next]_vars

\* ------------------------------------------- several instances in one process
\* Customer._nextId is an attribute of the class Customer: every
\* QueueSimulator of the process creates its customers from it and resets it.
\* The calls below are made on another QueueSimulator; of its fields only
\* the shared counter is followed, and lastOp records the call.
\* Customer.__init__, lines 28-31, run by the other instance's addCustomer
OtherAddCustomer ==
    /\ nextId <= MaxCustomers
    /\ nextId' = nextId + 1
    /\ lastOp' = [name |-> "other.addCustomer", arg |-> None, ret |-> None]
    /\ UNCHANGED <<config, simVars, windowVars>>

\* reset, line 434, run by the other instance
OtherReset ==
    /\ nextId' = 1
    /\ lastOp' = [name |-> "other.reset", arg |-> None, ret |-> None]
    /\ UNCHANGED <<config, simVars, windowVars>>

\* addCustomer on this instance while it holds fewer than MaxCustomers
\* customers
SharedArrive ==
    \E serviceType \in AbandonArrivals :
       /\ Len(Held) < MaxCustomers
       /\ AddCustomerOf(serviceType)

InitShared == Construct(<<1, 1, LONGEST_WAIT_FIRST, FALSE>>)

NextShared == Update \/ SharedArrive \/ Reset \/ OtherAddCustomer \/ OtherReset

SpecShared == InitShared /\ [][NextShared]_vars

\* ---------------------------------------------------------- the main window
\* initSimulator, mainGui.py lines 613-626
InitWindow ==
    ConstructWith(<<5, 4, LONGEST_WAIT_FIRST, TRUE>>, Some(defaultServiceTimes))

\* what the start button reads from the strategy combo box and the abandonment
\* check box (the acceleration and service time spin boxes are left at their
\* start values, the ones initSimulator uses)
WidgetStrategies == {LONGEST_WAIT_FIRST, PRIORITY_ORDER}
WidgetAbandonment == {TRUE, FALSE}
\* the service types of the manual buttons and of the Micro:bit's messages
WindowArrivals == {"standard_post"}

\* a call on the window with no result
WindowOp(name) == [name |-> name, arg |-> None, ret |-> None]

\* startSimulation (the start button is enabled while the simulation is not
\* running)
StartSimulation ==
    /\ guiAt = "eventLoop"
    /\ ~running
    /\ \E strategy \in WidgetStrategies, abandonment \in WidgetAbandonment :
          /\ dispatchStrategy' = strategy
          /\ abandonmentEnabled' = abandonment
    /\ running' = TRUE
    /\ lastOp' = WindowOp("startSimulation")
    /\ UNCHANGED <<numServers, numBooths, serviceTimes, servers, booths, queues,
                   simulationTime, lastUpdateTime, totalCustomersServed,
                   totalCustomersAbandoned, completedCustomers,
                   abandonedCustomers, roundRobinIndex, nextId, windowVars>>

\* pauseSimulation (the pause button is enabled while the simulation runs)
PauseSimulation ==
    /\ guiAt = "eventLoop"
    /\ running
    /\ running' = FALSE
    /\ lastOp' = WindowOp("pauseSimulation")
    /\ UNCHANGED <<config, servers, booths, queues, simulationTime,
                   lastUpdateTime, totalCustomersServed, totalCustomersAbandoned,
                   completedCustomers, abandonedCustomers, roundRobinIndex,
                   nextId, windowVars>>

\* resetSimulation
ResetSimulation ==
    /\ guiAt = "eventLoop"
    /\ ResetCall
    /\ UNCHANGED windowVars

\* the timer's timeout reaches the GUI thread, which enters updateSimulation
\* and finds simulator.running True (if it is False the slot returns at once)
TimerFires ==
    /\ guiAt = "eventLoop"
    /\ running
    /\ guiAt' = "updateSimulation"
    /\ lastOp' = WindowOp("updateSimulation")
    /\ UNCHANGED <<config, simVars, nextId, events, connected, listening,
                   listenerThread, now, pausedTime, received, applied>>

\* updateSimulation: self.simulator.update(), which reads the wall clock, and
\* the return to the event loop
UpdateSimulation ==
    /\ guiAt = "updateSimulation"
    /\ UpdateFirstCall(now) \/ UpdateAdvanceCall(now)
    /\ guiAt' = "eventLoop"
    /\ pausedTime' = 0
    /\ UNCHANGED <<events, connected, listening, listenerThread, now,
                   received, applied>>

\* a wall unit goes by
TimePasses ==
    /\ now < MaxWall
    /\ now' = now + 1
    /\ pausedTime' = IF running THEN pausedTime ELSE pausedTime + 1
    /\ lastOp' = WindowOp("sleep")
    /\ UNCHANGED <<config, simVars, nextId, guiAt, events, connected, listening,
                   listenerThread, received, applied>>

\* one of the manual buttons: MainWindow.addCustomer called in the GUI thread
ManualAdd ==
    /\ guiAt = "eventLoop"
    /\ nextId <= MaxCustomers
    /\ \E serviceType \in WindowArrivals : AddCustomerCall(serviceType)
    /\ UNCHANGED windowVars

\* ------------------------------------------------- the Micro:bit communicator
\* the communicator's fields as one record
Microbit ==
    [connected |-> connected, listening |-> listening,
     listenerThread |-> listenerThread]

\* the communicator's fields take the values of record m
MicrobitBecomes(m) ==
    /\ connected' = m.connected
    /\ listening' = m.listening
    /\ listenerThread' = m.listenerThread

\* connect, lines 48-77; ok says whether a port was found and opened
connect(m, ok) == IF ok THEN [m EXCEPT !.connected = TRUE] ELSE m

\* startListening, lines 97-111: the communicator afterwards and the result
startListening(m) ==
    IF ~m.connected THEN [m |-> m, ret |-> FALSE]
    ELSE IF m.listening THEN [m |-> m, ret |-> TRUE]
         ELSE [m |-> [m EXCEPT !.listening = TRUE,
                               !.listenerThread = Some("alive")],
               ret |-> TRUE]

\* stopListening, lines 113-118: the loop of a live thread sees listening
\* False within the two seconds join waits for it
stopListening(m) ==
    [m EXCEPT !.listening = FALSE,
              !.listenerThread = IF @ = Some("alive") THEN Some("ended") ELSE @]

\* disconnect, lines 79-85
disconnect(m) == [stopListening(m) EXCEPT !.connected = FALSE]

\* isConnected, line 191 (the port of a connected communicator is open)
isConnected(m) == m.connected

\* connectMicrobit, mainGui.py lines 815-827: the connect button
ConnectMicrobit ==
    /\ guiAt = "eventLoop"
    /\ IF isConnected(Microbit)
       THEN /\ MicrobitBecomes(disconnect(Microbit))
            /\ lastOp' = WindowOp("disconnect")
       ELSE \E ok \in BOOLEAN :
            \E m1 \in {connect(Microbit, ok)} :
               IF m1.connected
               THEN /\ MicrobitBecomes(startListening(m1).m)
                    /\ lastOp' = [name |-> "startListening", arg |-> None,
                                  ret |-> Some(startListening(m1).ret)]
               ELSE /\ MicrobitBecomes(m1)
                    /\ lastOp' = [name |-> "connect", arg |-> None,
                                  ret |-> Some(FALSE)]
    /\ UNCHANGED <<config, simVars, nextId, guiAt, events, now, pausedTime,
                   received, applied>>

\* onMicrobitMessage calling MainWindow.addCustomer itself, in the thread that
\* called it
onMicrobitMessageAddsDirectly(serviceType) ==
    /\ AddCustomerCall(serviceType)
    /\ applied' = Append(applied, [thread |-> "listener",
                                   serviceType |-> serviceType])
    /\ UNCHANGED events

\* onMicrobitMessage, mainGui.py lines 829-832, run by the listener thread:
\* customerAdded.emit.  The signal is connected to a slot of the window, an
\* object of the GUI thread, so Qt posts the call to that thread's event loop.
onMicrobitMessage(serviceType) ==
    /\ events' = Append(events, serviceType)
    /\ lastOp' = [name |-> "onMicrobitMessage", arg |-> Some(serviceType),
                  ret |-> None]
    /\ UNCHANGED <<config, simVars, nextId, applied>>

\* _listenLoop, lines 120-134, and _processMessage: the listener thread reads
\* a SERVICE_REQUEST line and calls the callback
ListenerReceives ==
    /\ listenerThread = Some("alive")
    /\ listening /\ connected
    /\ Len(received) < MaxCustomers
    /\ \E serviceType \in WindowArrivals :
          /\ received' = Append(received, serviceType)
          /\ onMicrobitMessage(serviceType)
    /\ UNCHANGED <<guiAt, connected, listening, listenerThread, now, pausedTime>>

\* _listenLoop, lines 127-130: a SerialException ends the loop and the thread
ListenerFails ==
    /\ listenerThread = Some("alive")
    /\ listening /\ connected
    /\ connected' = FALSE
    /\ listenerThread' = Some("ended")
    /\ lastOp' = WindowOp("serialError")
    /\ UNCHANGED <<config, simVars, nextId, guiAt, events, listening, now,
                   pausedTime, received, applied>>

\* the GUI thread's event loop delivers the oldest pending customerAdded
\* signal: MainWindow.addCustomer, mainGui.py lines 808-813
DeliverCustomerAdded ==
    /\ guiAt = "eventLoop"
    /\ events # <<>>
    /\ AddCustomerCall(Head(events))
    /\ events' = Tail(events)
    /\ applied' = Append(applied, [thread |-> "gui", serviceType |-> Head(events)])
    /\ UNCHANGED <<guiAt, connected, listening, listenerThread, now, pausedTime,
                   received>>

\* the window with its buttons, its timer and the wall clock
NextPause ==
    \/ StartSimulation
    \/ PauseSimulation
    \/ ResetSimulation
    \/ TimerFires
    \/ UpdateSimulation
    \/ TimePasses
    \/ ManualAdd

SpecPause == InitWindow /\ [][NextPause]_vars

\* the window with the Micro:bit connected and disconnected, its listener
\* thread and the timer
NextMicrobit ==
    \/ ConnectMicrobit
    \/ ListenerReceives
    \/ ListenerFails
    \/ DeliverCustomerAdded
    \/ StartSimulation
    \/ PauseSimulation
    \/ TimerFires
    \/ UpdateSimulation
    \/ TimePasses

SpecMicrobit == InitWindow /\ [][NextMicrobit]_vars

\* =================================================================== claims

\* C1: in every reachable state, for every server s: s is Busy iff
\* s.currentBoothId is set iff s.currentCustomer is set, and then the booth
\* with that id is occupied and its serverId is s.serverId; conversely every
\* occupied booth names a Busy server whose currentBoothId is that booth.
C1_ServerBoothConsistent ==
    /\ \A i \in DOMAIN servers :
          /\ (servers[i].state = BUSY) <=> (servers[i].currentBoothId # None)
          /\ (servers[i].state = BUSY) <=> (servers[i].currentCustomer # None)
          /\ servers[i].state = BUSY =>
                /\ servers[i].currentBoothId[1] \in DOMAIN booths
                /\ booths[servers[i].currentBoothId[1]].occupied
                /\ booths[servers[i].currentBoothId[1]].serverId
                       = Some(servers[i].serverId)
    /\ \A b \in DOMAIN booths :
          booths[b].occupied =>
                /\ booths[b].serverId # None
                /\ booths[b].serverId[1] \in DOMAIN servers
                /\ servers[booths[b].serverId[1]].state = BUSY
                /\ servers[booths[b].serverId[1]].currentBoothId = Some(b)

\* a server is busy at a booth that a completed service released earlier
C1_Witness ==
    /\ completedCustomers # <<>>
    /\ \E i \in DOMAIN servers :
          /\ servers[i].state = BUSY
          /\ servers[i].currentBoothId
                 = completedCustomers[Len(completedCustomers)].boothId

\* C2: in every reachable state no two Busy servers hold the same booth id,
\* the number of Busy servers equals the number of occupied booths and it
\* never exceeds min(numServers, numBooths).
C2_OneToOne ==
    /\ \A i, j \in BusyServers :
          i # j => servers[i].currentBoothId # servers[j].currentBoothId
    /\ Cardinality(BusyServers) = Cardinality(OccupiedBooths)
    /\ Cardinality(BusyServers) <= Min(numServers, numBooths)

\* one sweep has handed out two servers and two booths
C2_Witness ==
    /\ IsAdvance
    /\ Cardinality(BusyServers) = 2
    /\ \A i \in BusyServers :
          servers[i].currentCustomer[1].serviceStartTime = Some(simulationTime)

\* C3: in every reachable state every customer created by a successful
\* addCustomer since the last reset (the ids 1 .. Customer._nextId - 1) is
\* held exactly once: in one queue, at one Busy server, in the completed
\* history or in the abandoned history.
C3_CustomersHeldOnce ==
    /\ Len(Held) = nextId - 1
    /\ {Held[k].customerId : k \in 1..Len(Held)} = 1..(nextId - 1)
    /\ \A k \in 1..Len(AllQueued(queues)) : AllQueued(queues)[k].outcome = None
    /\ \A k \in 1..Len(completedCustomers) :
          completedCustomers[k].outcome = Some("completed")
    /\ \A k \in 1..Len(abandonedCustomers) :
          abandonedCustomers[k].outcome = Some("abandoned")

\* one customer has completed and another has abandoned
C3_Witness ==
    /\ completedCustomers # <<>>
    /\ abandonedCustomers # <<>>

\* C4: at every point in time the totalCustomers reported by getStatistics
\* equals completedCount + abandonedCount + the sum of the queue lengths +
\* the number of Busy servers.
C4_TotalCountsEveryCustomer ==
    getStatistics.totalCustomers
        = Len(completedCustomers) + Len(abandonedCustomers)
          + Waiting(queues) + Cardinality(BusyServers)

\* C5: between resets simulated time never decreases: a tick whose reading
\* is earlier than the recorded reference point advances simulated time by
\* zero, every other tick by wallClockDelta * accelerationFactor / 60.
C5_TimeNeverDecreases ==
    [][(lastOp'.name = "update" /\ lastUpdateTime # None) =>
          simulationTime' = simulationTime +
              (IF lastUpdateTime'[1] < lastUpdateTime[1] THEN 0
               ELSE SimDeltaTime(lastUpdateTime'[1] - lastUpdateTime[1]))]_vars

\* C6: the first tick after construction or reset only records the
\* wall-clock reference point; simulated time, queues, servers, booths, the
\* history lists, the counters and the cursor are unchanged by it.
C6_FirstTickOnlyRecords ==
    [][(lastOp'.name = "update" /\ lastUpdateTime = None) =>
          /\ lastUpdateTime' = lastOp'.arg
          /\ lastUpdateTime' # None
          /\ UNCHANGED <<servers, booths, queues, simulationTime,
                         totalCustomersServed, totalCustomersAbandoned,
                         completedCustomers, abandonedCustomers,
                         roundRobinIndex, nextId, config>>]_vars

\* the first tick after a reset (the cursor, which only a selection moves
\* and reset leaves alone, is off its initial value) has run while customers
\* wait and every server and booth is free
C6_Witness ==
    /\ IsFirstTick
    /\ roundRobinIndex # 0
    /\ Waiting(queues) > 0
    /\ BusyServers = {}
    /\ OccupiedBooths = {}

\* C7: if at the start of a state advancing tick all booths are occupied,
\* one Busy server's serviceEndTime is <= the new simulated time and a
\* customer is still waiting after the abandonment sweep, then at the end of
\* the tick a customer that was waiting is in service, started at this tick.
C7_FreedPairReassignedInSameTick ==
    [][(/\ lastOp'.name = "update"
        /\ lastUpdateTime # None
        /\ OccupiedBooths = DOMAIN booths
        /\ \E i \in BusyServers : servers[i].serviceEndTime[1] <= simulationTime'
        /\ Waiting(AfterAbandonment(Sim, lastUpdateTime'[1],
                                    lastOp'.ret[1][1]).queues) > 0)
       => \E i \in DOMAIN servers :
             /\ servers'[i].state = BUSY
             /\ servers'[i].currentCustomer[1].serviceStartTime
                    = Some(simulationTime')
             /\ \E k \in 1..Len(AllQueued(queues)) :
                   AllQueued(queues)[k].customerId
                       = servers'[i].currentCustomer[1].customerId]_vars

\* C8: the completion sweep of a tick completes exactly the Busy servers
\* whose serviceEndTime is <= the advanced simulated time: their customers
\* are appended to the completed history with outcome 'completed' and
\* serviceEndTime = simulated time, their booths are released and they
\* become Spare; every other Busy server keeps its customer, booth and end
\* time through the whole tick.
C8_CompletionSweepExact ==
    [][(lastOp'.name = "update" /\ lastUpdateTime # None) =>
          LET s1 == AfterCompletion(Sim, lastUpdateTime'[1])
              due == {i \in BusyServers :
                         servers[i].serviceEndTime[1] <= simulationTime'}
              n == Len(completedCustomers)
          IN /\ s1.simulationTime = simulationTime'
             /\ \A i \in due :
                   /\ s1.servers[i] = Server(i)
                   /\ s1.booths[servers[i].currentBoothId[1]]
                          = Booth(servers[i].currentBoothId[1])
                   /\ \E k \in (n + 1)..Len(s1.completedCustomers) :
                         s1.completedCustomers[k] =
                             [servers[i].currentCustomer[1] EXCEPT
                                  !.outcome = Some("completed"),
                                  !.serviceEndTime = Some(simulationTime')]
             /\ \A i \in DOMAIN servers \ due : s1.servers[i] = servers[i]
             /\ \A b \in DOMAIN booths :
                   (\A i \in due : servers[i].currentBoothId # Some(b))
                       => s1.booths[b] = booths[b]
             /\ Len(s1.completedCustomers) = n + Cardinality(due)
             /\ SubSeq(s1.completedCustomers, 1, n) = completedCustomers
             /\ s1.queues = queues
             /\ completedCustomers' = s1.completedCustomers
             /\ totalCustomersServed' = totalCustomersServed + Cardinality(due)
             /\ \A i \in BusyServers \ due : servers'[i] = servers[i]]_vars

\* a tick has completed one service and left another, not yet due, running
C8_Witness ==
    /\ IsAdvance
    /\ completedCustomers # <<>>
    /\ completedCustomers[Len(completedCustomers)].serviceEndTime
           = Some(simulationTime)
    /\ \E i \in BusyServers :
          /\ servers[i].serviceEndTime[1] > simulationTime
          /\ servers[i].currentCustomer[1].serviceStartTime[1] < simulationTime

\* C9: for every customer in the completed history,
\* queueJoinTime <= serviceStartTime <= serviceEndTime.
C9_CompletedTimestampsOrdered ==
    \A k \in 1..Len(completedCustomers) :
        /\ completedCustomers[k].queueJoinTime
               <= completedCustomers[k].serviceStartTime[1]
        /\ completedCustomers[k].serviceStartTime[1]
               <= completedCustomers[k].serviceEndTime[1]

\* C10: addCustomer with a category that is not configured returns no
\* customer and leaves queues, servers, booths, history lists, simulated
\* time and the customer-id counter unchanged.
C10_InvalidCategoryNoEffect ==
    [][(lastOp'.name = "addCustomer" /\ lastOp'.arg[1] \notin DOMAIN queues) =>
          /\ lastOp'.ret = None
          /\ UNCHANGED <<simVars, nextId, config>>]_vars

\* a call with an unknown category has failed while customers exist
C10_Witness ==
    /\ lastOp.name = "addCustomer"
    /\ lastOp.arg = Some("unknown")
    /\ lastOp.ret = None
    /\ nextId > 1
    /\ Len(Held) > 0

\* C11: addCustomer with a configured category appends exactly one new
\* customer to the tail of that category's queue, with arrivalTime =
\* queueJoinTime = the current simulated time, no service timestamps, no
\* server or booth and no outcome, and returns it; the other queues, the
\* order of the customers already in this queue, the servers, the booths,
\* the history lists, the counters and the simulated time are unchanged, so
\* nothing is dispatched by the call.
C11_AddCustomerOnlyAppends ==
    [][(lastOp'.name = "addCustomer" /\ lastOp'.arg[1] \in DOMAIN queues) =>
          LET serviceType == lastOp'.arg[1]
              n == Len(queues[serviceType])
              customer == queues'[serviceType][n + 1]
          IN /\ Len(queues'[serviceType]) = n + 1
             /\ SubSeq(queues'[serviceType], 1, n) = queues[serviceType]
             /\ lastOp'.ret = Some(customer)
             /\ \A k \in 1..Len(Held) : Held[k].customerId # customer.customerId
             /\ customer.serviceType = serviceType
             /\ customer.arrivalTime = simulationTime
             /\ customer.queueJoinTime = simulationTime
             /\ customer.serviceStartTime = None
             /\ customer.serviceEndTime = None
             /\ customer.serverId = None
             /\ customer.boothId = None
             /\ customer.outcome = None
             /\ \A c \in DOMAIN queues \ {serviceType} : queues'[c] = queues[c]
             /\ DOMAIN queues' = DOMAIN queues
             /\ UNCHANGED <<servers, booths, simulationTime, lastUpdateTime,
                            totalCustomersServed, totalCustomersAbandoned,
                            completedCustomers, abandonedCustomers,
                            roundRobinIndex, config>>]_vars

\* a customer has joined behind another one of its category, after simulated
\* time has advanced, while a Spare server and a free booth exist
C11_Witness ==
    /\ lastOp.name = "addCustomer"
    /\ lastOp.ret # None
    /\ simulationTime > 0
    /\ Len(queues[lastOp.arg[1]]) >= 2
    /\ queues[lastOp.arg[1]][Len(queues[lastOp.arg[1]])] = lastOp.ret[1]
    /\ \E i \in DOMAIN servers : servers[i].state = SPARE
    /\ \E b \in DOMAIN booths : ~booths[b].occupied

\* C12: the selection made by a tick's assignment sweep while a Spare
\* server and a free booth exist returns no customer iff every queue is
\* empty, and then changes no queue; otherwise it returns one customer that
\* was the head of a queue and removes exactly that customer, leaving the
\* other queues and the order of the rest unchanged.
C12_SelectionNoneIffEmpty ==
    [][(lastOp'.name = "update" /\ lastOp'.ret # None) =>
          LET s == AfterAbandonment(Sim, lastOp'.arg[1], lastOp'.ret[1][1])
              sel == selectNextCustomer(s)
          IN (AvailableServers(s, 0) # <<>> /\ AvailableBooths(s, 0) # <<>>) =>
                /\ (sel.customer = None) <=> (Waiting(s.queues) = 0)
                /\ sel.customer = None => sel.sim.queues = s.queues
                /\ sel.customer # None =>
                      \E c \in DOMAIN s.queues :
                         /\ s.queues[c] # <<>>
                         /\ sel.customer[1] = Head(s.queues[c])
                         /\ sel.sim.queues = [s.queues EXCEPT ![c] = Tail(@)]
                         /\ Waiting(sel.sim.queues) = Waiting(s.queues) - 1]_vars

\* C13: within one category the queue is first in, first out under every
\* policy.  In every step other than a reset, a customer that leaves a queue
\* either starts service or is abandoned; a customer that starts service
\* leaves no customer behind that stood before it in its queue (so it was
\* the head when it was dispatched, and of two customers of one category the
\* later one never starts service while the earlier is still waiting); and
\* the customers that stay keep their order.
C13_FifoWithinCategory ==
    [][lastOp'.name # "reset" =>
          \A c \in DOMAIN queues :
             LET started == {InService(servers', 0)[k].customerId :
                                k \in 1..Len(InService(servers', 0))}
                 abandoned == {abandonedCustomers'[k].customerId :
                                k \in 1..Len(abandonedCustomers')}
                 staying == {i \in 1..Len(queues[c]) :
                                \E k \in 1..Len(queues'[c]) :
                                   queues'[c][k].customerId = queues[c][i].customerId}
             IN /\ \A i \in 1..Len(queues[c]) :
                      i \notin staying =>
                         \/ queues[c][i].customerId \in abandoned
                         \/ /\ queues[c][i].customerId \in started
                            /\ \A j \in 1..(i - 1) : j \notin staying
                /\ \A i, j \in staying :
                      i < j =>
                         \E k, l \in 1..Len(queues'[c]) :
                            /\ k < l
                            /\ queues'[c][k].customerId = queues[c][i].customerId
                            /\ queues'[c][l].customerId = queues[c][j].customerId]_vars

\* a tick has just dispatched a customer while a customer of its category
\* that joined the queue after it is still waiting
C13_Witness ==
    \E i \in DOMAIN servers :
       /\ IsAdvance
       /\ servers[i].state = BUSY
       /\ servers[i].currentCustomer[1].serviceStartTime = Some(simulationTime)
       /\ LET customer == servers[i].currentCustomer[1]
          IN /\ queues[customer.serviceType] # <<>>
             /\ Head(queues[customer.serviceType]).customerId > customer.customerId

\* C14: under LongestWaitFirst the selection made by a tick's assignment
\* sweep while some queue is non-empty returns the queue head whose wait
\* simulationTime - queueJoinTime is largest among the heads of the
\* non-empty queues, the first such head in the order standard_post,
\* passports, parcels on a tie; and after the tick no customer it dispatched
\* has a queueJoinTime later than that of a customer still waiting.
C14_LongestWaitFirstSelects ==
    [][(lastOp'.name = "update" /\ lastOp'.ret # None
            /\ dispatchStrategy = LONGEST_WAIT_FIRST) =>
          LET s == AfterAbandonment(Sim, lastOp'.arg[1], lastOp'.ret[1][1])
              sel == selectNextCustomer(s)
              nonEmpty == {i \in 1..Len(serviceTypesList) :
                              s.queues[serviceTypesList[i]] # <<>>}
              wait(i) == s.simulationTime
                            - Head(s.queues[serviceTypesList[i]]).queueJoinTime
          IN /\ (AvailableServers(s, 0) # <<>> /\ AvailableBooths(s, 0) # <<>>
                    /\ nonEmpty # {}) =>
                   \E i \in nonEmpty :
                      /\ sel.customer = Some(Head(s.queues[serviceTypesList[i]]))
                      /\ \A j \in nonEmpty : wait(j) <= wait(i)
                      /\ \A j \in nonEmpty : j < i => wait(j) < wait(i)
             /\ \A k \in 1..Len(InService(servers', 0)) :
                   InService(servers', 0)[k].serviceStartTime = Some(simulationTime')
                   /\ (\E l \in 1..Len(AllQueued(s.queues)) : AllQueued(s.queues)[l]
                          .customerId = InService(servers', 0)[k].customerId)
                   => \A l \in 1..Len(AllQueued(queues')) :
                         AllQueued(queues')[l].queueJoinTime
                            >= InService(servers', 0)[k].queueJoinTime]_vars

\* C15: under ShortestJobFirst the selection made by a tick's assignment
\* sweep while some queue is non-empty returns the head of the non-empty
\* queue whose category has the smallest configured service time, the first
\* such queue in the order standard_post, passports, parcels on a tie; and
\* after the tick no customer it dispatched belongs to a more expensive
\* category than a customer it left waiting.
C15_ShortestJobFirstSelects ==
    [][(lastOp'.name = "update" /\ lastOp'.ret # None
            /\ dispatchStrategy = SHORTEST_JOB_FIRST) =>
          LET s == AfterAbandonment(Sim, lastOp'.arg[1], lastOp'.ret[1][1])
              sel == selectNextCustomer(s)
              nonEmpty == {i \in 1..Len(serviceTypesList) :
                              s.queues[serviceTypesList[i]] # <<>>}
              cost(i) == serviceTimes[serviceTypesList[i]]
          IN /\ (AvailableServers(s, 0) # <<>> /\ AvailableBooths(s, 0) # <<>>
                    /\ nonEmpty # {}) =>
                   \E i \in nonEmpty :
                      /\ sel.customer = Some(Head(s.queues[serviceTypesList[i]]))
                      /\ \A j \in nonEmpty : cost(i) <= cost(j)
                      /\ \A j \in nonEmpty : j < i => cost(i) < cost(j)
             /\ \A k \in 1..Len(InService(servers', 0)) :
                   InService(servers', 0)[k].serviceStartTime = Some(simulationTime')
                   /\ (\E l \in 1..Len(AllQueued(s.queues)) : AllQueued(s.queues)[l]
                          .customerId = InService(servers', 0)[k].customerId)
                   => \A l \in 1..Len(AllQueued(queues')) :
                         serviceTimes[AllQueued(queues')[l].serviceType]
                            >= serviceTimes[InService(servers', 0)[k].serviceType]]_vars

\* with standard_post and parcels costing the same, a tick has just
\* dispatched the standard_post customer although the parcels customer joined
\* earlier and is still waiting
C15_Witness ==
    /\ IsAdvance
    /\ dispatchStrategy = SHORTEST_JOB_FIRST
    /\ \E i \in DOMAIN servers :
          /\ servers[i].state = BUSY
          /\ servers[i].currentCustomer[1].serviceStartTime = Some(simulationTime)
          /\ servers[i].currentCustomer[1].serviceType = "standard_post"
          /\ servers[i].currentCustomer[1].customerId = 2
          /\ queues["parcels"] # <<>>
          /\ Head(queues["parcels"]).customerId = 1
          /\ serviceTimes["parcels"] = serviceTimes["standard_post"]

\* C16: under RoundRobin, three consecutive selections before each of which
\* all three queues are non-empty each return a customer, one of each
\* category, in the cyclic order of standard_post, passports, parcels that
\* starts at the cursor position before the first of them.
C16_RoundRobinCycle ==
    dispatchStrategy = ROUND_ROBIN =>
       LET n == Len(serviceTypesList)
           r1 == selectNextCustomer(Sim)
           r2 == selectNextCustomer(r1.sim)
           r3 == selectNextCustomer(r2.sim)
       IN (/\ \A c \in DOMAIN queues : queues[c] # <<>>
           /\ \A c \in DOMAIN queues : r1.sim.queues[c] # <<>>
           /\ \A c \in DOMAIN queues : r2.sim.queues[c] # <<>>) =>
             /\ r1.customer # None /\ r2.customer # None /\ r3.customer # None
             /\ r1.customer[1].serviceType
                    = serviceTypesList[(roundRobinIndex % n) + 1]
             /\ r2.customer[1].serviceType
                    = serviceTypesList[((roundRobinIndex + 1) % n) + 1]
             /\ r3.customer[1].serviceType
                    = serviceTypesList[((roundRobinIndex + 2) % n) + 1]
             /\ r1.customer[1] = Head(queues[r1.customer[1].serviceType])
             /\ r2.customer[1] = Head(queues[r2.customer[1].serviceType])
             /\ r3.customer[1] = Head(queues[r3.customer[1].serviceType])

\* earlier selections have left the cursor on parcels, and the queues are
\* filled so that all three stay non-empty through the next two selections
C16_Witness ==
    /\ dispatchStrategy = ROUND_ROBIN
    /\ roundRobinIndex = 2
    /\ Len(queues["parcels"]) = 2
    /\ Len(queues["standard_post"]) = 2
    /\ Len(queues["passports"]) = 1

\* C17: under RoundRobin, the selection a tick's assignment sweep makes while
\* every queue is empty returns no customer and leaves the cursor at the
\* value it had before, whatever that value is; nothing else of the
\* instance changes either.
C17_RoundRobinEmptyKeepsCursor ==
    [][(lastOp'.name = "update" /\ lastOp'.ret # None
            /\ dispatchStrategy = ROUND_ROBIN) =>
          LET s == AfterAbandonment(Sim, lastOp'.arg[1], lastOp'.ret[1][1])
              sel == selectNextCustomer(s)
          IN (AvailableServers(s, 0) # <<>> /\ AvailableBooths(s, 0) # <<>>
                 /\ \A c \in DOMAIN s.queues : s.queues[c] = <<>>) =>
                /\ sel.customer = None
                /\ sel.sim.roundRobinIndex = roundRobinIndex
                /\ sel.sim = s
                /\ roundRobinIndex' = roundRobinIndex]_vars

\* a tick has found a Spare server, a free booth and empty queues with the
\* cursor on parcels, where earlier selections left it
C17_Witness ==
    /\ IsAdvance
    /\ dispatchStrategy = ROUND_ROBIN
    /\ roundRobinIndex = 2
    /\ \A c \in DOMAIN queues : queues[c] = <<>>
    /\ BusyServers = {}
    /\ OccupiedBooths = {}

\* C18: under PriorityOrder the selection made by a tick's assignment sweep
\* returns the head of the passports queue if it is non-empty, else the head
\* of the parcels queue if it is non-empty, else the head of the
\* standard_post queue; and after the tick no customer it dispatched ranks
\* behind a customer it left waiting (passports first, then parcels, then
\* standard_post).
C18_PriorityOrderSelects ==
    [][(lastOp'.name = "update" /\ lastOp'.ret # None
            /\ dispatchStrategy = PRIORITY_ORDER) =>
          LET s == AfterAbandonment(Sim, lastOp'.arg[1], lastOp'.ret[1][1])
              sel == selectNextCustomer(s)
              rank == [passports |-> 1, parcels |-> 2, standard_post |-> 3]
          IN /\ (AvailableServers(s, 0) # <<>> /\ AvailableBooths(s, 0) # <<>>) =>
                   sel.customer =
                      IF s.queues["passports"] # <<>>
                      THEN Some(Head(s.queues["passports"]))
                      ELSE IF s.queues["parcels"] # <<>>
                      THEN Some(Head(s.queues["parcels"]))
                      ELSE IF s.queues["standard_post"] # <<>>
                      THEN Some(Head(s.queues["standard_post"]))
                      ELSE None
             /\ \A k \in 1..Len(InService(servers', 0)) :
                   InService(servers', 0)[k].serviceStartTime = Some(simulationTime')
                   /\ (\E l \in 1..Len(AllQueued(s.queues)) : AllQueued(s.queues)[l]
                          .customerId = InService(servers', 0)[k].customerId)
                   => \A l \in 1..Len(AllQueued(queues')) :
                         rank[AllQueued(queues')[l].serviceType]
                            >= rank[InService(servers', 0)[k].serviceType]]_vars

\* a tick has just dispatched a customer of a higher priority category than
\* that of a customer who joined earlier and is still waiting
C18_Witness ==
    /\ IsAdvance
    /\ dispatchStrategy = PRIORITY_ORDER
    /\ \E i \in DOMAIN servers :
          /\ servers[i].state = BUSY
          /\ servers[i].currentCustomer[1].serviceStartTime = Some(simulationTime)
          /\ servers[i].currentCustomer[1].customerId = 2
          /\ servers[i].currentCustomer[1].serviceType \in {"passports", "parcels"}
          /\ queues["standard_post"] # <<>>
          /\ Head(queues["standard_post"]).customerId = 1

C20_DisabledNeverAbandons ==
    [][(~abandonmentEnabled /\ lastOp'.name \in {"addCustomer", "update"}) =>
          /\ abandonedCustomers' = <<>>
          /\ totalCustomersAbandoned' = 0
          /\ \A k \in 1..Len(AllQueued(queues)) :
                (\A l \in 1..Len(AllQueued(queues')) :
                    AllQueued(queues')[l].customerId # AllQueued(queues)[k].customerId)
                => \E i \in DOMAIN servers' :
                      /\ servers'[i].state = BUSY
                      /\ servers'[i].currentCustomer[1].customerId
                             = AllQueued(queues)[k].customerId
                      /\ servers'[i].currentCustomer[1].serverId = Some(i)]_vars

\* with abandonment disabled a tick has just left a customer in its queue who
\* has waited for more than 5 minutes
C20_Witness ==
    /\ ~abandonmentEnabled
    /\ IsAdvance
    /\ abandonedCustomers = <<>>
    /\ \E k \in 1..Len(AllQueued(queues)) :
          simulationTime - AllQueued(queues)[k].queueJoinTime > 5 * Minute

\* C21: only a state advancing tick of an instance with abandonment enabled
\* abandons customers, and every customer it abandons was waiting in a queue
\* before the tick, has never started service, and has at the tick's
\* simulated time a wait simulationTime - queueJoinTime strictly greater than
\* 5 minutes; a waiting customer whose wait is <= 5 minutes stays where the
\* rest of the tick finds it, and no customer that is or was at a server is
\* in the abandoned history.
C21_AbandonOnlyLongWaiting ==
    [][lastOp'.name # "reset" =>
          LET n == Len(abandonedCustomers)
              evicted == SubSeq(abandonedCustomers', n + 1, Len(abandonedCustomers'))
          IN /\ Len(abandonedCustomers') >= n
             /\ SubSeq(abandonedCustomers', 1, n) = abandonedCustomers
             /\ evicted # <<>> =>
                   /\ abandonmentEnabled
                   /\ lastOp'.name = "update" /\ lastOp'.ret # None
             /\ \A k \in 1..Len(evicted) :
                   /\ evicted[k].customerId \in Ids(AllQueued(queues))
                   /\ simulationTime' - evicted[k].queueJoinTime > 5 * Minute
                   /\ evicted[k].serviceStartTime = None
                   /\ evicted[k].serverId = None
                   /\ evicted[k].boothId = None
             /\ \A k \in 1..Len(AllQueued(queues)) :
                   simulationTime' - AllQueued(queues)[k].queueJoinTime <= 5 * Minute
                      => AllQueued(queues)[k].customerId \notin Ids(evicted)
             /\ Ids(InService(servers, 0)) \cap Ids(abandonedCustomers') = {}
             /\ Ids(InService(servers', 0)) \cap Ids(abandonedCustomers') = {}
             /\ Ids(completedCustomers') \cap Ids(abandonedCustomers') = {}]_vars

\* a tick has just evicted a customer who had waited 10 minutes and left in
\* the queue a customer who has waited exactly 5 minutes, while the server is
\* busy with a customer it took at an earlier tick
C21_Witness ==
    /\ IsAdvance
    /\ abandonmentEnabled
    /\ abandonedCustomers # <<>>
    /\ abandonedCustomers[Len(abandonedCustomers)].serviceEndTime
           = Some(simulationTime)
    /\ simulationTime
           - abandonedCustomers[Len(abandonedCustomers)].queueJoinTime = 10 * Minute
    /\ \E k \in 1..Len(AllQueued(queues)) :
          simulationTime - AllQueued(queues)[k].queueJoinTime = 5 * Minute
    /\ \E i \in BusyServers :
          servers[i].currentCustomer[1].serviceStartTime[1] < simulationTime

\* C22: in a state advancing tick with abandonment enabled, every customer
\* the abandonment sweep evicts is appended to the abandoned history with
\* outcome 'abandoned' and serviceEndTime = the tick's simulated time and is
\* in no queue afterwards, the abandoned count grows by the number evicted,
\* the customers the sweep leaves in a queue are the others, in the order
\* they had, and the sweep changes no server, no booth, not the completed
\* history and not the simulated time.
C22_EvictionRecordsAndKeepsOrder ==
    [][(lastOp'.name = "update" /\ lastOp'.ret # None /\ abandonmentEnabled) =>
          \A s1 \in {AfterCompletion(Sim, lastOp'.arg[1])} :
          \A s2 \in {AfterAbandonment(Sim, lastOp'.arg[1], lastOp'.ret[1][1])} :
          \A evicted \in {SubSeq(s2.abandonedCustomers,
                                 Len(s1.abandonedCustomers) + 1,
                                 Len(s2.abandonedCustomers))} :
             /\ Len(s2.abandonedCustomers) >= Len(s1.abandonedCustomers)
             /\ SubSeq(s2.abandonedCustomers, 1, Len(s1.abandonedCustomers))
                    = s1.abandonedCustomers
             /\ s2.totalCustomersAbandoned
                    = s1.totalCustomersAbandoned + Len(evicted)
             /\ \A k \in 1..Len(evicted) :
                   /\ evicted[k].outcome = Some("abandoned")
                   /\ evicted[k].serviceEndTime = Some(simulationTime')
                   /\ \E l \in 1..Len(AllQueued(s1.queues)) :
                         evicted[k] = [AllQueued(s1.queues)[l] EXCEPT
                                          !.outcome = Some("abandoned"),
                                          !.serviceEndTime = Some(simulationTime')]
                   /\ evicted[k].customerId \notin Ids(AllQueued(s2.queues))
                   /\ evicted[k].customerId \notin Ids(AllQueued(queues'))
             /\ \A c \in DOMAIN s1.queues :
                   /\ Ids(s2.queues[c]) = Ids(s1.queues[c]) \ Ids(evicted)
                   /\ Len(s2.queues[c]) = Cardinality(Ids(s2.queues[c]))
                   /\ \A k, l \in 1..Len(s2.queues[c]) :
                         k < l =>
                            \E i, j \in 1..Len(s1.queues[c]) :
                               /\ i < j
                               /\ s1.queues[c][i] = s2.queues[c][k]
                               /\ s1.queues[c][j] = s2.queues[c][l]
             /\ s2.servers = s1.servers
             /\ s2.booths = s1.booths
             /\ s2.completedCustomers = s1.completedCustomers
             /\ s2.simulationTime = s1.simulationTime
             /\ s2.roundRobinIndex = s1.roundRobinIndex
             /\ abandonedCustomers' = s2.abandonedCustomers
             /\ totalCustomersAbandoned' = s2.totalCustomersAbandoned]_vars

\* a tick has just evicted the second of three waiting customers: the first
\* went to the server in the same tick and the third is still queued
C22_Witness ==
    /\ IsAdvance
    /\ abandonmentEnabled
    /\ abandonedCustomers # <<>>
    /\ abandonedCustomers[Len(abandonedCustomers)].serviceEndTime
           = Some(simulationTime)
    /\ abandonedCustomers[Len(abandonedCustomers)].customerId = 2
    /\ \E i \in BusyServers :
          /\ servers[i].currentCustomer[1].customerId = 1
          /\ servers[i].currentCustomer[1].serviceStartTime = Some(simulationTime)
          /\ servers[i].currentCustomer[1].serviceType
                 = abandonedCustomers[Len(abandonedCustomers)].serviceType
    /\ \E k \in 1..Len(AllQueued(queues)) :
          /\ AllQueued(queues)[k].customerId = 3
          /\ AllQueued(queues)[k].serviceType
                 = abandonedCustomers[Len(abandonedCustomers)].serviceType

\* C23: with abandonment enabled, when ticks keep occurring and the eviction
\* draw cannot fail for ever, a customer who is waiting in a queue with a
\* wait above 10 minutes does not stay so for ever: it is evicted into the
\* abandoned history, unless it stops waiting with such a wait for another
\* reason (it is dispatched, the instance is reset or the wait changes).
C23_LongWaitEventuallyEvicted ==
    \A id \in 1..MaxCustomers :
       QueuedOverTen(id) ~>
          (id \in Ids(abandonedCustomers) \/ ~QueuedOverTen(id))

\* a tick has just evicted a customer who had waited 11 minutes, while the
\* only server is busy with another customer
C23_Witness ==
    /\ IsAdvance
    /\ abandonmentEnabled
    /\ abandonedCustomers # <<>>
    /\ abandonedCustomers[Len(abandonedCustomers)].serviceEndTime
           = Some(simulationTime)
    /\ simulationTime
           - abandonedCustomers[Len(abandonedCustomers)].queueJoinTime > 10 * Minute
    /\ BusyServers = DOMAIN servers
    /\ OccupiedBooths = DOMAIN booths

\* C24: after reset(), from any reachable state, all queues are empty, both
\* history lists are empty, the served and abandoned counters are 0, every
\* server is Spare with no customer, booth or end time, every booth is
\* unoccupied with no serverId, simulated time is 0, the wall-clock reference
\* is cleared (so that the next tick only records it) and the next customer
\* created gets id 1; the configuration is as it was.
C24_ResetClears ==
    [][lastOp'.name = "reset" =>
          /\ \A c \in Categories : queues'[c] = <<>>
          /\ DOMAIN queues' = Categories
          /\ completedCustomers' = <<>>
          /\ abandonedCustomers' = <<>>
          /\ totalCustomersServed' = 0
          /\ totalCustomersAbandoned' = 0
          /\ servers' = [i \in 0..(numServers - 1) |-> Server(i)]
          /\ booths' = [i \in 0..(numBooths - 1) |-> Booth(i)]
          /\ simulationTime' = 0
          /\ lastUpdateTime' = None
          /\ nextId' = 1
          /\ AddCustomerResult("parcels")' = Some(Customer(1, "parcels", 0))
          /\ UNCHANGED config]_vars

\* reset has just been called on an instance whose cursor earlier selections
\* had moved
C24_Witness ==
    /\ lastOp.name = "reset"
    /\ roundRobinIndex = 1
    /\ nextId = 1
    /\ Len(Held) = 0

\* C25: for every dispatch policy and every prior history, reset() followed
\* by an arrival/tick sequence yields the same dispatch order and the same
\* statistics as a newly constructed instance with the same configuration
\* given the same sequence and the same random draws: right after a reset,
\* up to two arrivals followed by the reference tick and one further tick
\* leave the instance and a fresh one with the same servers, booths, queues,
\* histories, counters and clock.
C25_ResetThenSameAsFresh ==
    lastOp.name = "reset" =>
       \A arrivals \in ReplayArrivals : \A realDeltaTime \in {0, 3} :
          \A jitter \in Jitter :
             /\ Observable(Replay(Sim, arrivals, realDeltaTime, jitter))
                   = Observable(Replay(FreshSim, arrivals, realDeltaTime, jitter))
             /\ getStatistics = [totalCustomers |-> 0, totalServed |-> 0,
                                 totalAbandoned |-> 0,
                                 avgWaitTime |-> [num |-> 0, den |-> 1],
                                 avgServiceTime |-> [num |-> 0, den |-> 1],
                                 simulationTime |-> 0]

C27_AccessorsReadOnly ==
    [][lastOp'.name \in {"getStatistics", "getQueueLengths",
                         "getServerStates", "getBoothStates"} =>
          /\ UNCHANGED <<queues, servers, booths, completedCustomers,
                         abandonedCustomers, totalCustomersServed,
                         totalCustomersAbandoned, roundRobinIndex,
                         simulationTime, lastUpdateTime, nextId, config>>
          /\ lastOp'.name = "getStatistics" => lastOp'.ret = Some(getStatistics')
          /\ lastOp'.name = "getQueueLengths" => lastOp'.ret = Some(getQueueLengths')
          /\ lastOp'.name = "getServerStates" => lastOp'.ret = Some(getServerStates')
          /\ lastOp'.name = "getBoothStates" => lastOp'.ret = Some(getBoothStates')]_vars

\* getStatistics has just been called on an instance that holds a completed
\* and an abandoned customer
C27_Witness ==
    /\ lastOp.name = "getStatistics"
    /\ lastOp.ret[1].totalCustomers = 2
    /\ completedCustomers # <<>>
    /\ abandonedCustomers # <<>>

\* C28: getStatistics reports served = the length of the completed history,
\* abandoned = the length of the abandoned history, meanWait = the mean of
\* serviceStartTime - queueJoinTime and meanService = the mean of
\* serviceEndTime - serviceStartTime over the completed customers, and both
\* means are 0 when no customer has completed.  (A mean is kept as the pair
\* of its numerator and its denominator.)
C28_StatisticsAreTheMeans ==
    \A stats \in {getStatistics} :
    LET n == Len(completedCustomers)
        waits[k \in 0..n] ==
            IF k = 0 THEN 0
            ELSE waits[k - 1] + completedCustomers[k].serviceStartTime[1]
                              - completedCustomers[k].queueJoinTime
        services[k \in 0..n] ==
            IF k = 0 THEN 0
            ELSE services[k - 1] + completedCustomers[k].serviceEndTime[1]
                                 - completedCustomers[k].serviceStartTime[1]
    IN /\ stats.totalServed = n
       /\ stats.totalAbandoned = Len(abandonedCustomers)
       /\ n = 0 => stats.avgWaitTime.num = 0 /\ stats.avgServiceTime.num = 0
       /\ n > 0 => /\ stats.avgWaitTime = [num |-> waits[n], den |-> n]
                   /\ stats.avgServiceTime = [num |-> services[n], den |-> n]

\* C29: a customer whose service has started has the wait duration
\* serviceStartTime - queueJoinTime, a completed customer has the service
\* duration serviceEndTime - serviceStartTime, and the two are undefined only
\* before the start and before the finish, whatever the value of
\* serviceStartTime, the simulated time 0 included.
C29_DurationsDefinedOnceStarted ==
    /\ \A k \in 1..Len(AllQueued(queues)) :
          \A c \in {AllQueued(queues)[k]} :
             getWaitDuration(c) = None /\ getServiceDuration(c) = None
    /\ \A i \in DOMAIN servers :
          servers[i].currentCustomer # None =>
             \A c \in {servers[i].currentCustomer[1]} :
                /\ getWaitDuration(c) = Some(c.serviceStartTime[1] - c.queueJoinTime)
                /\ getServiceDuration(c) = None
    /\ \A k \in 1..Len(completedCustomers) :
          \A c \in {completedCustomers[k]} :
             /\ getWaitDuration(c) = Some(c.serviceStartTime[1] - c.queueJoinTime)
             /\ getServiceDuration(c) = Some(c.serviceEndTime[1] - c.serviceStartTime[1])

\* C30: a simulator constructed with a zero or negative number of servers or
\* of booths never reaches a state in which addCustomer or a tick has run:
\* the construction fails.
C30_InvalidConfigurationNeverRuns ==
    lastOp.name \in {"addCustomer", "update"} =>
        numServers >= 1 /\ numBooths >= 1

\* C31: every tick terminates.  The assignment sweep of a state advancing
\* tick assigns at most min(Spare servers, free booths, waiting customers)
\* times, counted after the completion and abandonment sweeps, and every
\* assigning iteration takes one server, one booth and one customer: the
\* numbers of Spare servers, of free booths and of waiting customers at
\* the end of the tick are lower by the number of assignments.  A
\* RoundRobin selection inspects at most N categories, N the number of
\* categories, and leaves the cursor that many places on.
C31_TickTerminates ==
    [][(lastOp'.name = "update" /\ lastUpdateTime # None) =>
         \A s2 \in {AfterAbandonment(Sim, lastUpdateTime'[1], lastOp'.ret[1][1])} :
         \A n \in {Len(lastOp'.ret[1][2])} :
            /\ n <= Min(Len(AvailableServers(s2, 0)),
                        Min(Len(AvailableBooths(s2, 0)), Waiting(s2.queues)))
            /\ Cardinality(DOMAIN servers' \ BusyServers')
                   = Len(AvailableServers(s2, 0)) - n
            /\ Cardinality(DOMAIN booths' \ OccupiedBooths')
                   = Len(AvailableBooths(s2, 0)) - n
            /\ Waiting(queues') = Waiting(s2.queues) - n
            /\ dispatchStrategy = ROUND_ROBIN =>
                  /\ RoundRobinAttempts(s2, 0) <= Len(serviceTypesList)
                  /\ selectRoundRobin(s2).sim.roundRobinIndex
                         = (s2.roundRobinIndex + RoundRobinAttempts(s2, 0))
                               % Len(serviceTypesList)]_vars

\* a state advancing tick has assigned two customers, taking the last two
\* Spare servers and the last two free booths
C31_Witness ==
    /\ IsAdvance
    /\ Len(lastOp.ret[1][2]) = 2
    /\ Cardinality(BusyServers) = 2
    /\ Cardinality(OccupiedBooths) = 2
    /\ Waiting(queues) = 0

\* C32: between two resets of an instance its customer ids are unique and
\* strictly increasing in creation order: a successful addCustomer returns
\* a customer whose id is greater than the id of every customer the
\* instance has created since its construction or last reset (all of which
\* it still holds), and the first such id is 1.
C32_IdsStrictlyIncrease ==
    [][(lastOp'.name = "addCustomer" /\ lastOp'.ret # None) =>
          /\ \A k \in 1..Len(Held) :
                Held[k].customerId < lastOp'.ret[1].customerId
          /\ Held = <<>> => lastOp'.ret[1].customerId = 1]_vars

\* C40: the ids of the customers one instance holds stay unique when other
\* instances exist: whatever has been constructed, used or reset elsewhere,
\* addCustomer never hands out an id that a customer this instance holds
\* in a queue, at a server or in a history list already has.
C40_NoHeldIdHandedOutAgain ==
    [][(lastOp'.name = "addCustomer" /\ lastOp'.ret # None) =>
          lastOp'.ret[1].customerId \notin Ids(Held)]_vars

\* C33: a customer's lifecycle only moves forward.  Over every step but a
\* reset: the history lists keep their entries unchanged and only grow; a
\* new completed entry is a customer that was in service and a new
\* abandoned entry is one that was waiting, each with its outcome set; no
\* customer that was in service or in a history list is in a queue
\* afterwards, and none in a history list is at a server; no customer is in
\* both history lists; a customer in service stays as it is or is completed;
\* and only customers in the history lists have an outcome.
C33_LifecycleOnlyForward ==
    [][lastOp'.name # "reset" =>
         \A queued \in {Ids(AllQueued(queues'))} :
         \A served \in {Ids(InService(servers', 0))} :
         \A nc \in {Len(completedCustomers)} :
         \A na \in {Len(abandonedCustomers)} :
            /\ Len(completedCustomers') >= nc
            /\ SubSeq(completedCustomers', 1, nc) = completedCustomers
            /\ Len(abandonedCustomers') >= na
            /\ SubSeq(abandonedCustomers', 1, na) = abandonedCustomers
            /\ \A k \in (nc + 1)..Len(completedCustomers') :
                  /\ completedCustomers'[k].customerId \in Ids(InService(servers, 0))
                  /\ completedCustomers'[k].outcome = Some("completed")
            /\ \A k \in (na + 1)..Len(abandonedCustomers') :
                  /\ abandonedCustomers'[k].customerId \in Ids(AllQueued(queues))
                  /\ abandonedCustomers'[k].outcome = Some("abandoned")
            /\ queued \cap (Ids(InService(servers, 0)) \cup Ids(completedCustomers')
                              \cup Ids(abandonedCustomers')) = {}
            /\ served \cap (Ids(completedCustomers') \cup Ids(abandonedCustomers')) = {}
            /\ Ids(completedCustomers') \cap Ids(abandonedCustomers') = {}
            /\ \A i \in DOMAIN servers :
                  servers[i].currentCustomer # None =>
                     \/ servers'[i].currentCustomer = servers[i].currentCustomer
                     \/ servers[i].currentCustomer[1].customerId
                            \in Ids(completedCustomers')
            /\ \A k \in 1..Len(AllQueued(queues')) :
                  AllQueued(queues')[k].outcome = None
            /\ \A k \in 1..Len(InService(servers', 0)) :
                  InService(servers', 0)[k].outcome = None]_vars

\* a state advancing tick has just completed one customer and evicted another
\* while the histories already held a completed customer
C33_Witness ==
    /\ IsAdvance
    /\ Len(completedCustomers) >= 2
    /\ Len(abandonedCustomers) >= 1
    /\ completedCustomers[Len(completedCustomers)].serviceEndTime = Some(simulationTime)
    /\ abandonedCustomers[Len(abandonedCustomers)].serviceEndTime = Some(simulationTime)

\* C35: the assignment is work conserving: at the end of a state advancing
\* tick no queue is non-empty while a server is Spare and a booth is
\* unoccupied, for every dispatch policy and every wall-clock input.
C35_WorkConserving ==
    IsAdvance =>
        ~ /\ Waiting(queues) > 0
          /\ \E i \in DOMAIN servers : servers[i].state = SPARE
          /\ \E b \in DOMAIN booths : ~booths[b].occupied

\* C36: under RoundRobin a selection made while some queue is non-empty
\* returns the head of the first non-empty category met when the categories
\* are scanned cyclically from the cursor, removes it, and leaves the cursor
\* at (index of that category + 1) mod N; the selection after it scans from
\* there, so a category skipped as empty is met again only after the
\* categories that follow the one that yielded.
C36_RoundRobinFirstNonEmpty ==
    (dispatchStrategy = ROUND_ROBIN /\ Waiting(queues) > 0) =>
       \A n \in {Len(serviceTypesList)} :
       \A r1 \in {selectNextCustomer(Sim)} :
       \A d \in {CHOOSE d \in 0..(n - 1) :
                    /\ queues[serviceTypesList[((roundRobinIndex + d) % n) + 1]] # <<>>
                    /\ \A e \in 0..(d - 1) :
                          queues[serviceTypesList[((roundRobinIndex + e) % n) + 1]] = <<>>} :
       \A c \in {serviceTypesList[((roundRobinIndex + d) % n) + 1]} :
          /\ r1.customer = Some(Head(queues[c]))
          /\ r1.sim.queues = [queues EXCEPT ![c] = Tail(@)]
          /\ r1.sim.roundRobinIndex = (roundRobinIndex + d + 1) % n
          /\ Waiting(r1.sim.queues) > 0 =>
                \A r2 \in {selectNextCustomer(r1.sim)} :
                \E d2 \in 0..(n - 1) :
                   /\ r2.customer # None
                   /\ r2.customer[1].serviceType
                          = serviceTypesList[((roundRobinIndex + d + 1 + d2) % n) + 1]
                   /\ \A e \in 0..(d2 - 1) :
                         r1.sim.queues[serviceTypesList[
                             ((roundRobinIndex + d + 1 + e) % n) + 1]] = <<>>

\* the cursor stands on passports; passports and parcels are empty, so the
\* scan wraps round to standard_post, where two customers wait
C36_Witness ==
    /\ dispatchStrategy = ROUND_ROBIN
    /\ lastOp.name = "selectNextCustomer"
    /\ roundRobinIndex = 1
    /\ queues["passports"] = <<>>
    /\ queues["parcels"] = <<>>
    /\ Len(queues["standard_post"]) = 2

\* C37: each assignment binds customer, server and booth consistently.
\* After every step, the customer of every Busy server s carries
\* serverId = s.serverId and boothId = s.currentBoothId, has a
\* serviceStartTime not after s.serviceEndTime and no outcome, and if it was
\* waiting before the step its serviceStartTime is the simulated time of
\* this tick; every customer completed by the step carries the serverId and
\* the boothId of the server it was at and of the booth that server held.
C37_AssignmentBindsConsistently ==
    [][/\ \A i \in DOMAIN servers' :
             servers'[i].state = BUSY =>
                \A c \in {servers'[i].currentCustomer[1]} :
                   /\ c.serverId = Some(servers'[i].serverId)
                   /\ c.boothId = servers'[i].currentBoothId
                   /\ c.boothId # None
                   /\ c.outcome = None
                   /\ c.serviceStartTime # None
                   /\ servers'[i].serviceEndTime[1] >= c.serviceStartTime[1]
                   /\ c.customerId \in Ids(AllQueued(queues)) =>
                         c.serviceStartTime = Some(simulationTime')
       /\ \A k \in (Len(completedCustomers) + 1)..Len(completedCustomers') :
             \E i \in DOMAIN servers :
                /\ servers[i].currentCustomer # None
                /\ servers[i].currentCustomer[1].customerId
                       = completedCustomers'[k].customerId
                /\ completedCustomers'[k].serverId = Some(servers[i].serverId)
                /\ completedCustomers'[k].boothId = servers[i].currentBoothId
                /\ completedCustomers'[k].boothId # None]_vars

\* a tick at a simulated time above 0 has completed one customer and started
\* the service of another
C37_Witness ==
    /\ IsAdvance
    /\ simulationTime > 0
    /\ completedCustomers # <<>>
    /\ completedCustomers[Len(completedCustomers)].serviceEndTime
           = Some(simulationTime)
    /\ \E i \in DOMAIN servers :
          /\ servers[i].state = BUSY
          /\ servers[i].currentCustomer[1].serviceStartTime = Some(simulationTime)

C38_PausedTimeNotAdded ==
    [][lastOp'.name = "update" =>
          /\ running
          /\ lastUpdateTime # None =>
                simulationTime' = simulationTime
                    + SimDeltaTime(now - lastUpdateTime[1] - pausedTime)]_vars

\* C39: whenever startListening returns True while the communicator is
\* connected, a live listener thread is processing the incoming messages,
\* also after the listen loop has ended on a serial error and a later
\* connect has succeeded.
C39_ListeningMeansLiveThread ==
    (lastOp.name = "startListening" /\ lastOp.ret = Some(TRUE) /\ connected) =>
        listenerThread = Some("alive")

====
